---- MODULE Spec2Model ----
(***************************************************************************)
(* Serendipity SNS backend (backend/app/main.py, backend/app/models.py).   *)
(*                                                                         *)
(* The store is a PostgreSQL database reached through SQLAlchemy sessions  *)
(* (READ COMMITTED, autoflush off, expire_on_commit on).  Every request    *)
(* handler is modelled as a session that advances one database round trip  *)
(* at a time (StepReq).  Spec runs each handler to completion before the   *)
(* next one starts; SpecConc interleaves the round trips of two sessions.  *)
(*                                                                         *)
(* Time is counted in minutes, positions in millimetres along a line.      *)
(***************************************************************************)
EXTENDS Integers, Sequences, FiniteSets, Bags, TLC

VARIABLES pins, devices, interactions, ghosts, nextPinId, now, reqs, last,
          placed, tenths, stats_cooldown

vars == <<pins, devices, interactions, ghosts, nextPinId, now, reqs, last,
          placed, tenths, stats_cooldown>>

-----------------------------------------------------------------------------
(* Bounds of the model *)

MaxLikes == 4
MaxDislikes == 1
MaxReports == 7
MaxPassBys == 1
MaxTicks == 1

-----------------------------------------------------------------------------
(* Program constants *)

HOUR == 60
DAY == 1440
LIKE_BONUS == 7 * DAY
ONE_YEAR == 365 * DAY
DAILY_PIN_LIMIT == 20
DUPLICATE_RADIUS_M == 100
DISCOVERY_RADIUS_METERS == 50
DISCOVER_LIMIT == 50

Devices == {"d1", "d2"}
NoDevice == "none"
AuthTypes == {"device", "supabase"}
Kinds == {"like", "dislike", "report"}
NoKind == "none"

PinIds == {1}
Positions == {0, 49996, 50004}
DurationHours == {1, 24}
TickSteps == {61}

Expired == [expired |-> TRUE]

-----------------------------------------------------------------------------
(* Rows and the store *)

Pin_born_suppressed(dev, pos, created, hours) ==
    [device |-> dev, pos |-> pos,
     created_at |-> created, expires_at |-> created + hours * HOUR,
     likes |-> 0, dislikes |-> 0, reports |-> 0, passes_by |-> 0,
     is_active |-> TRUE, is_suppressed |-> TRUE]

Pin(dev, pos, created, hours) ==
    [device |-> dev, pos |-> pos,
     created_at |-> created, expires_at |-> created + hours * HOUR,
     likes |-> 0, dislikes |-> 0, reports |-> 0, passes_by |-> 0,
     is_active |-> TRUE, is_suppressed |-> FALSE]

Device(auth, today) ==
    [auth_type |-> auth, pins_created_today |-> 0, last_pin_reset |-> today]

PinInteraction(d, p, k) == [dev |-> d, pin |-> p, kind |-> k]

GhostPin(d, p, t) == [dev |-> d, pin |-> p, first_seen_at |-> t]

DB == [pins |-> pins, devices |-> devices, interactions |-> interactions,
       ghosts |-> ghosts]

RowsOf(ix, d, p) == {r \in BagToSet(ix) : r.dev = d /\ r.pin = p}

RowCount(ix, d, p) ==
    LET S == RowsOf(ix, d, p)
        RECURSIVE Sum(_)
        Sum(T) == IF T = {} THEN 0
                  ELSE LET r == CHOOSE x \in T : TRUE
                       IN ix[r] + Sum(T \ {r})
    IN Sum(S)

GhostsOf(gs, d, p) == {g \in BagToSet(gs) : g.dev = d /\ g.pin = p}

Today(t) == t \div DAY

-----------------------------------------------------------------------------
(* Responses *)

NoRow == [likes |-> 0, dislikes |-> 0, reports |-> 0, passes_by |-> 0,
          is_suppressed |-> FALSE, expires_at |-> 0]

Response(status, msg, row, extended) ==
    [status |-> status, msg |-> msg,
     likes |-> row.likes, dislikes |-> row.dislikes, reports |-> row.reports,
     passes_by |-> row.passes_by, is_suppressed |-> row.is_suppressed,
     expires_at |-> row.expires_at, extended |-> extended,
     count |-> 0, found |-> <<>>]

NoResponse == Response(0, "none", NoRow, FALSE)

-----------------------------------------------------------------------------
(* Sessions: one request in flight *)

NewRequest(op, p, d, auth, ghostFails) ==
    [op |-> op, pin |-> p, dev |-> d, auth |-> auth, ghostFails |-> ghostFails,
     pc |-> "start", base |-> NoRow, loaded |-> Expired, obj |-> Expired,
     devFound |-> FALSE, existing |-> NoKind, pendingIx |-> FALSE,
     flushed |-> FALSE, changed |-> FALSE, extended |-> FALSE,
     clock |-> 0, resp |-> NoResponse]

Idle == [NewRequest("none", 0, NoDevice, "device", FALSE) EXCEPT !.pc = "idle"]

Goto(db, s, pc) == [db |-> db, s |-> [s EXCEPT !.pc = pc]]

Finish(db, s, resp) ==
    [db |-> db,
     s |-> [s EXCEPT !.pc = "done", !.resp = resp, !.flushed = FALSE,
                     !.loaded = Expired, !.obj = Expired]]

\* except Exception: db.rollback(); raise HTTPException(500)
Fault(db, s) == Finish(db, s, Response(500, "server_error", NoRow, FALSE))

\* except HTTPException: raise  (404 "Pin not found or inactive")
NotFound(db, s) == Finish(db, s, Response(404, "not_found", NoRow, FALSE))

-----------------------------------------------------------------------------
(* ORM unit of work *)

ActivePin_any(db, p) == p \in DOMAIN db.pins

\* db.query(Pin).filter(Pin.id == pin_id, Pin.is_active).first()
ActivePin(db, p) == p \in DOMAIN db.pins /\ db.pins[p].is_active

\* An UPDATE carries only the attributes whose value differs from the one
\* the session loaded.
MergeDirty(row, loaded, obj) ==
    [c \in DOMAIN row |-> IF obj[c] # loaded[c] THEN obj[c] ELSE row[c]]

IsDirty(s) == s.obj # Expired /\ s.obj # s.loaded

\* The flush of the pin held by the session fails when the row is gone.
PinFlushFails(db, s) == IsDirty(s) /\ s.pin \notin DOMAIN db.pins

FlushPin(db, s) ==
    IF IsDirty(s)
    THEN [db EXCEPT !.pins[s.pin] = MergeDirty(@, s.loaded, s.obj)]
    ELSE db

\* Attribute access on an expired instance reloads the row.
Reload(db, s) ==
    IF s.obj = Expired
    THEN [s EXCEPT !.loaded = db.pins[s.pin], !.obj = db.pins[s.pin]]
    ELSE s

ReloadFails(db, s) == s.obj = Expired /\ s.pin \notin DOMAIN db.pins

update_suppression_status_ge(pin) ==
    [pin EXCEPT !.is_suppressed = (pin.reports >= pin.likes * 2)]

update_suppression_status(pin) ==
    [pin EXCEPT !.is_suppressed = (pin.reports > pin.likes * 2)]

\* get_or_create_device, the SELECT
DeviceQuery(db, s) ==
    [db |-> db, s |-> [s EXCEPT !.devFound = (s.dev \in DOMAIN db.devices),
                                !.pc = "dev_commit"]]

\* get_or_create_device, the INSERT or UPDATE and its commit; the commit
\* also flushes whatever the session holds and expires its instances.
DeviceCommitFails(db, s) ==
    \/ ~s.devFound /\ s.dev \in DOMAIN db.devices
    \/ PinFlushFails(db, s)

DeviceCommit(db, s, t, pc) ==
    LET db1 == FlushPin(db, s)
        devs == IF ~s.devFound
                THEN db.devices @@ (s.dev :> Device(s.auth, Today(t)))
                ELSE [db.devices EXCEPT ![s.dev].auth_type =
                         IF @ = "device" /\ s.auth = "supabase"
                         THEN "supabase" ELSE @]
    IN [db |-> [db1 EXCEPT !.devices = devs],
        s |-> [s EXCEPT !.loaded = Expired, !.obj = Expired, !.pc = pc]]

-----------------------------------------------------------------------------
(* Interaction rows *)

AddRow(ix, r) == ix (+) SetToBag({r})

\* UPDATE pin_interactions SET interaction_type = k WHERE id = <the row>
SetKind(ix, r, k) == (ix (-) SetToBag({r})) (+) SetToBag({[r EXCEPT !.kind = k]})

UniqueViolation_unchecked(ix, d, p) == FALSE

\* UniqueConstraint('device_db_id', 'pin_id', name='uq_device_pin_interaction')
UniqueViolation(ix, d, p) == RowsOf(ix, d, p) # {}

\* INSERT of the pending interaction and UPDATE of the flipped one
InteractionFlushFails(db, s) ==
    \/ s.pendingIx /\ ~s.flushed /\ UniqueViolation(db.interactions, s.dev, s.pin)
    \/ s.pendingIx /\ s.pin \notin DOMAIN db.pins
    \/ s.existing # NoKind /\ RowsOf(db.interactions, s.dev, s.pin) = {}

FlushInteraction(db, s, kind) ==
    IF s.pendingIx
    THEN [db EXCEPT !.interactions = AddRow(@, PinInteraction(s.dev, s.pin, kind))]
    ELSE IF s.existing # NoKind
    THEN [db EXCEPT !.interactions =
             SetKind(@, CHOOSE r \in RowsOf(@, s.dev, s.pin) : TRUE, kind)]
    ELSE db

\* db.commit() of a vote handler followed by the read of the response
CommitVote(db, s, kind, msg) ==
    IF PinFlushFails(db, s) \/ InteractionFlushFails(db, s)
    THEN Fault(db, s)
    ELSE LET db1 == FlushInteraction(FlushPin(db, s), s, kind)
         IN Finish(db1, s, Response(200, msg, db1.pins[s.pin], s.extended))

\* A handler that returns the pin's current attributes without writing
Unchanged(db, s, msg) ==
    IF ReloadFails(db, s) THEN Fault(db, s)
    ELSE Finish(db, s, Response(200, msg, Reload(db, s).obj, FALSE))

StartVote(db, s) ==
    IF ~ActivePin(db, s.pin) THEN NotFound(db, s)
    ELSE [db |-> db,
          s |-> [s EXCEPT !.base = db.pins[s.pin],
                          !.loaded = db.pins[s.pin], !.obj = db.pins[s.pin],
                          !.pc = IF s.dev # NoDevice THEN "dev_query"
                                 ELSE "mutate"]]

VoteDeviceCommit(db, s, t) ==
    IF DeviceCommitFails(db, s) THEN Fault(db, s)
    ELSE DeviceCommit(db, s, t, "check")

-----------------------------------------------------------------------------
(* like_pin *)

\* The like-extension rule: 7 days more, capped at created_at + 1 year
new_expiry_uncapped(pin) == pin.expires_at + LIKE_BONUS

new_expiry(pin) ==
    LET max_expiry == pin.created_at + ONE_YEAR
        pushed == pin.expires_at + LIKE_BONUS
    IN IF pushed > max_expiry THEN max_expiry ELSE pushed

LikeExtension_skipped(pin) == pin

LikeExtension(pin) ==
    IF new_expiry(pin) > pin.expires_at
    THEN [pin EXCEPT !.expires_at = new_expiry(pin)]
    ELSE pin

LikeCheck_recounting(db, s) ==
    LET rows == RowsOf(db.interactions, s.dev, s.pin)
    IN IF rows = {}
       THEN [db |-> db, s |-> [s EXCEPT !.pendingIx = TRUE, !.pc = "mutate"]]
       ELSE LET r == CHOOSE x \in rows : TRUE
            IN IF r.kind = "like"
               THEN [db |-> db, s |-> [s EXCEPT !.pc = "mutate"]]
               ELSE [db |-> db,
                     s |-> [s EXCEPT !.existing = r.kind, !.pc = "mutate"]]

LikeCheck(db, s) ==
    LET rows == RowsOf(db.interactions, s.dev, s.pin)
    IN IF rows = {}
       THEN [db |-> db, s |-> [s EXCEPT !.pendingIx = TRUE, !.pc = "mutate"]]
       ELSE LET r == CHOOSE x \in rows : TRUE
            IN IF r.kind = "like"
               THEN Unchanged(db, s, "already_liked")
               ELSE [db |-> db,
                     s |-> [s EXCEPT !.existing = r.kind, !.pc = "mutate"]]

LikeMutate(db, s) ==
    IF ReloadFails(db, s) THEN Fault(db, s)
    ELSE LET s1 == Reload(db, s)
             pin == s1.obj
         IN IF s.existing # NoKind
            THEN \* Change from dislike to like
                 [db |-> db,
                  s |-> [s1 EXCEPT
                           !.obj = update_suppression_status(
                                     [pin EXCEPT !.likes = @ + 1,
                                                 !.dislikes = @ - 1]),
                           !.pc = "commit"]]
            ELSE LET liked == update_suppression_status(
                                  [pin EXCEPT !.likes = @ + 1])
                     ext == LikeExtension(liked)
                 IN [db |-> db,
                     s |-> [s1 EXCEPT !.obj = ext,
                                      !.extended = (ext.expires_at > pin.expires_at),
                                      !.pc = "commit"]]

like_pin(db, s, t) ==
    CASE s.pc = "start" -> StartVote(db, s)
      [] s.pc = "dev_query" -> DeviceQuery(db, s)
      [] s.pc = "dev_commit" -> VoteDeviceCommit(db, s, t)
      [] s.pc = "check" -> LikeCheck(db, s)
      [] s.pc = "mutate" -> LikeMutate(db, s)
      [] s.pc = "commit" ->
           CommitVote(db, s, "like",
                      IF s.existing # NoKind THEN "changed_to_like" ELSE "liked")

-----------------------------------------------------------------------------
(* dislike_pin *)

DislikeCheck(db, s) ==
    LET rows == RowsOf(db.interactions, s.dev, s.pin)
    IN IF rows = {}
       THEN [db |-> db, s |-> [s EXCEPT !.pendingIx = TRUE, !.pc = "mutate"]]
       ELSE LET r == CHOOSE x \in rows : TRUE
            IN IF r.kind = "dislike"
               THEN Unchanged(db, s, "already_disliked")
               ELSE [db |-> db,
                     s |-> [s EXCEPT !.existing = r.kind, !.pc = "mutate"]]

DislikeMutate_one_sided(db, s) ==
    IF ReloadFails(db, s) THEN Fault(db, s)
    ELSE LET s1 == Reload(db, s)
             pin == s1.obj
         IN [db |-> db,
             s |-> [s1 EXCEPT !.obj = [pin EXCEPT !.dislikes = @ + 1],
                              !.pc = "commit"]]

DislikeMutate(db, s) ==
    IF ReloadFails(db, s) THEN Fault(db, s)
    ELSE LET s1 == Reload(db, s)
             pin == s1.obj
         IN IF s.existing # NoKind
            THEN \* Change from like to dislike
                 [db |-> db,
                  s |-> [s1 EXCEPT
                           !.obj = update_suppression_status(
                                     [pin EXCEPT !.likes = @ - 1,
                                                 !.dislikes = @ + 1]),
                           !.pc = "commit"]]
            ELSE [db |-> db,
                  s |-> [s1 EXCEPT !.obj = [pin EXCEPT !.dislikes = @ + 1],
                                   !.pc = "commit"]]

dislike_pin(db, s, t) ==
    CASE s.pc = "start" -> StartVote(db, s)
      [] s.pc = "dev_query" -> DeviceQuery(db, s)
      [] s.pc = "dev_commit" -> VoteDeviceCommit(db, s, t)
      [] s.pc = "check" -> DislikeCheck(db, s)
      [] s.pc = "mutate" -> DislikeMutate(db, s)
      [] s.pc = "commit" ->
           CommitVote(db, s, "dislike",
                      IF s.existing # NoKind THEN "changed_to_dislike"
                      ELSE "disliked")

-----------------------------------------------------------------------------
(* report_pin *)

ReportCheck(db, s) ==
    LET existing_report ==
            {r \in RowsOf(db.interactions, s.dev, s.pin) : r.kind = "report"}
    IN IF existing_report # {}
       THEN Unchanged(db, s, "already_reported")
       ELSE [db |-> db, s |-> [s EXCEPT !.pendingIx = TRUE, !.pc = "flush"]]

\* db.flush() of the new report row and its except IntegrityError branch
ReportFlush(db, s) ==
    IF UniqueViolation(db.interactions, s.dev, s.pin)
    THEN \* db.rollback(); db.refresh(pin); return "already reported"
         Unchanged(db, [s EXCEPT !.loaded = Expired, !.obj = Expired],
                   "already_reported")
    ELSE IF s.pin \notin DOMAIN db.pins
    THEN Fault(db, s)
    ELSE [db |-> db, s |-> [s EXCEPT !.flushed = TRUE, !.pc = "mutate"]]

ReportMutate(db, s) ==
    IF ReloadFails(db, s) THEN Fault(db, s)
    ELSE LET s1 == Reload(db, s)
             pin == s1.obj
             reported == update_suppression_status([pin EXCEPT !.reports = @ + 1])
         IN [db |-> db,
             s |-> [s1 EXCEPT
                      !.obj = reported,
                      !.changed = (reported.is_suppressed # pin.is_suppressed),
                      !.pc = "commit"]]

ReportCommit(db, s) ==
    IF PinFlushFails(db, s) \/ InteractionFlushFails(db, s)
    THEN Fault(db, s)
    ELSE LET db1 == FlushInteraction(FlushPin(db, s), s, "report")
             pin == db1.pins[s.pin]
         IN Finish(db1, s,
                   Response(200,
                            IF s.changed /\ pin.is_suppressed
                            THEN "reported_suppressed" ELSE "reported",
                            pin, FALSE))

report_pin(db, s, t) ==
    CASE s.pc = "start" -> StartVote(db, s)
      [] s.pc = "dev_query" -> DeviceQuery(db, s)
      [] s.pc = "dev_commit" -> VoteDeviceCommit(db, s, t)
      [] s.pc = "check" -> ReportCheck(db, s)
      [] s.pc = "flush" -> ReportFlush(db, s)
      [] s.pc = "mutate" -> ReportMutate(db, s)
      [] s.pc = "commit" -> ReportCommit(db, s)

-----------------------------------------------------------------------------
(* record_pass_by *)

PassByResponse(msg, n) ==
    Response(200, msg, [NoRow EXCEPT !.passes_by = n], FALSE)

\* except Exception: db.rollback(); return "Failed to record"
PassByFailed(db, s) == Finish(db, s, PassByResponse("failed", 0))

\* return {"message": "Pass-by recorded", "passes_by": pin.passes_by}
PassByRecorded(db, s) ==
    IF s.pin \notin DOMAIN db.pins THEN PassByFailed(db, s)
    ELSE Finish(db, s, PassByResponse("recorded", db.pins[s.pin].passes_by))

PassByStart(db, s) ==
    IF ~ActivePin(db, s.pin)
    THEN Finish(db, s, PassByResponse("not_found", 0))
    ELSE LET pin == db.pins[s.pin]
         IN [db |-> db,
             s |-> [s EXCEPT !.base = pin, !.loaded = pin,
                             !.obj = [pin EXCEPT !.passes_by = @ + 1],
                             !.pc = IF s.dev # NoDevice THEN "dev_query"
                                    ELSE "commit"]]

\* A failure inside get_or_create_device is swallowed by the inner except;
\* the session then refuses the final commit.
PassByDeviceCommit(db, s, t) ==
    IF DeviceCommitFails(db, s) THEN PassByFailed(db, s)
    ELSE DeviceCommit(db, s, t, "ghost")

InsertGhost_overwriting(gs, d, p, t) ==
    LET keep == {g \in BagToSet(gs) : ~(g.dev = d /\ g.pin = p)}
    IN [g \in keep |-> gs[g]] (+) SetToBag({GhostPin(d, p, t)})

\* INSERT INTO ghost_pins ... ON CONFLICT (device_db_id, pin_id) DO NOTHING
InsertGhost(gs, d, p, t) ==
    IF GhostsOf(gs, d, p) # {} THEN gs
    ELSE gs (+) SetToBag({GhostPin(d, p, t)})

PassByGhost_fatal(db, s, t) ==
    IF s.ghostFails \/ s.pin \notin DOMAIN db.pins
    THEN PassByFailed(db, s)
    ELSE PassByRecorded([db EXCEPT !.ghosts = InsertGhost(@, s.dev, s.pin, t)], s)

PassByGhost(db, s, t) ==
    IF s.ghostFails \/ s.pin \notin DOMAIN db.pins
    THEN PassByRecorded(db, s)
    ELSE PassByRecorded([db EXCEPT !.ghosts = InsertGhost(@, s.dev, s.pin, t)], s)

PassByCommit(db, s) ==
    IF PinFlushFails(db, s) THEN PassByFailed(db, s)
    ELSE PassByRecorded(FlushPin(db, s), s)

record_pass_by(db, s, t) ==
    CASE s.pc = "start" -> PassByStart(db, s)
      [] s.pc = "dev_query" -> DeviceQuery(db, s)
      [] s.pc = "dev_commit" -> PassByDeviceCommit(db, s, t)
      [] s.pc = "ghost" -> PassByGhost(db, s, t)
      [] s.pc = "commit" -> PassByCommit(db, s)

-----------------------------------------------------------------------------
(* Sessions, one round trip at a time *)

StepReq(db, s, t) ==
    CASE s.op = "like" -> like_pin(db, s, t)
      [] s.op = "dislike" -> dislike_pin(db, s, t)
      [] s.op = "report" -> report_pin(db, s, t)
      [] s.op = "passby" -> record_pass_by(db, s, t)

\* A handler run from its first statement to its response with no other
\* request in between.
RECURSIVE RunReq(_, _)
RunReq(n, t) ==
    IF n.s.pc = "done" THEN n
    ELSE RunReq(StepReq(n.db, n.s, t), t)

-----------------------------------------------------------------------------
(* Geography: ST_Distance and ST_DWithin on points of one meridian *)

Abs(x) == IF x < 0 THEN -x ELSE x

ST_Distance(a, b) == Abs(a - b)

ST_DWithin(a, b, meters) == ST_Distance(a, b) <= meters * 1000

\* round(distance_meters, 2), in centimetres, of a distance in millimetres
Round2(mm) ==
    LET q == mm \div 10
        r == mm % 10
    IN IF r < 5 THEN q
       ELSE IF r > 5 THEN q + 1
       ELSE IF q % 2 = 0 THEN q ELSE q + 1

-----------------------------------------------------------------------------
(* create_pin *)

Last(op, p, d, resp) == [op |-> op, pin |-> p, dev |-> d] @@ resp

Rejected(status, msg) == Response(status, msg, NoRow, FALSE)

get_or_create_device_overwriting(devs, d, auth, t) ==
    IF d \notin DOMAIN devs
    THEN devs @@ (d :> Device(auth, Today(t)))
    ELSE [devs EXCEPT ![d].auth_type = auth]

\* get_or_create_device run in one piece
get_or_create_device(devs, d, auth, t) ==
    IF d \notin DOMAIN devs
    THEN devs @@ (d :> Device(auth, Today(t)))
    ELSE [devs EXCEPT ![d].auth_type =
             IF @ = "device" /\ auth = "supabase" THEN "supabase" ELSE @]

\* check_device_rate_limit: the lazy reset of the daily counter
ResetIfNewDay(dev, t) ==
    IF dev.last_pin_reset < Today(t)
    THEN [dev EXCEPT !.pins_created_today = 0, !.last_pin_reset = Today(t)]
    ELSE dev

check_device_rate_limit_inclusive(dev) ==
    dev.pins_created_today <= DAILY_PIN_LIMIT

check_device_rate_limit(dev) == dev.pins_created_today < DAILY_PIN_LIMIT

check_duplicate_pin(ps, d, pos, t) ==
    \E p \in DOMAIN ps :
        /\ ps[p].device = d
        /\ ps[p].created_at > t - HOUR
        /\ ST_DWithin(ps[p].pos, pos, DUPLICATE_RADIUS_M)

\* What the create request asked for, kept with its response
Asked(pos, hours, contentOk, resp) ==
    [pos |-> pos, hours |-> hours, content_ok |-> contentOk] @@ resp

RejectCreate_counted(d, pos, hours, devs, status, msg) ==
    /\ last' = Asked(pos, hours, TRUE,
                     Last("create", 0, d, Rejected(status, msg)))
    /\ devices' = [devs EXCEPT ![d].pins_created_today = @ + 1]
    /\ UNCHANGED <<pins, nextPinId, placed>>

\* raise HTTPException(429 | 400) after the device lookup
RejectCreate(d, pos, hours, devs, status, msg) ==
    /\ last' = Asked(pos, hours, TRUE,
                     Last("create", 0, d, Rejected(status, msg)))
    /\ devices' = devs
    /\ UNCHANGED <<pins, nextPinId, placed>>

\* PinCreate: duration_hours: int = Field(24, ge=1, le=168); a body that
\* fails validation is answered 422 before the handler runs
PinCreate(hours) == hours >= 1 /\ hours <= 168

\* expiry_hours = max(1, min(pin_data.duration_hours, 730))
expiry_hours(hours) ==
    LET capped == IF hours < 730 THEN hours ELSE 730
    IN IF capped > 1 THEN capped ELSE 1

CreateGuards_duplicate_first(devs, ps, d, pos, t) ==
    IF d = NoDevice THEN "ok"
    ELSE IF check_duplicate_pin(ps, d, pos, t) THEN "duplicate"
    ELSE IF ~check_device_rate_limit(devs[d]) THEN "daily_limit"
    ELSE "ok"

\* The guards a request with a device identifier passes, in their order:
\* check_device_rate_limit, then check_duplicate_pin
CreateGuards(devs, ps, d, pos, t) ==
    IF d = NoDevice THEN "ok"
    ELSE IF ~check_device_rate_limit(devs[d]) THEN "daily_limit"
    ELSE IF check_duplicate_pin(ps, d, pos, t) THEN "duplicate"
    ELSE "ok"

CreatePin(d, auth, pos, hours, contentOk) ==
    /\ UNCHANGED <<interactions, ghosts, now, reqs, tenths, stats_cooldown>>
    /\ IF ~PinCreate(hours)
       THEN /\ last' = Asked(pos, hours, contentOk,
                             Last("create", 0, d,
                                  Rejected(422, "validation_error")))
            /\ UNCHANGED <<pins, devices, nextPinId, placed>>
       ELSE IF ~contentOk
       THEN /\ last' = Asked(pos, hours, contentOk,
                             Last("create", 0, d,
                                  Rejected(400, "invalid_content")))
            /\ UNCHANGED <<pins, devices, nextPinId, placed>>
       ELSE LET devs1 == IF d = NoDevice THEN devices
                         ELSE get_or_create_device(devices, d, auth, now)
                devs2 == IF d = NoDevice THEN devs1
                         ELSE [devs1 EXCEPT ![d] = ResetIfNewDay(@, now)]
                verdict == CreateGuards(devs2, pins, d, pos, now)
            IN IF verdict = "daily_limit"
               THEN RejectCreate(d, pos, hours, devs2, 429, "daily_limit")
               ELSE IF verdict = "duplicate"
               THEN RejectCreate(d, pos, hours, devs2, 400, "duplicate")
               ELSE LET new_pin == Pin(d, pos, now, expiry_hours(hours))
                    IN /\ pins' = pins @@ (nextPinId :> new_pin)
                       /\ placed' = placed \cup
                                       {[id |-> nextPinId, dev |-> d, pos |-> pos,
                                         at |-> now]}
                       /\ nextPinId' = nextPinId + 1
                       /\ devices' = IF d = NoDevice THEN devs2
                                     ELSE [devs2 EXCEPT
                                             ![d].pins_created_today = @ + 1]
                       /\ last' = Asked(pos, hours, TRUE,
                                        Last("create", nextPinId, d,
                                             Response(200, "created", new_pin,
                                                      FALSE)))

-----------------------------------------------------------------------------
(* cleanup_expired_pins *)

Restrict(f, S) == [x \in S |-> f[x]]

\* ON DELETE CASCADE of the rows that reference a removed pin
Cascade(bag, gone) ==
    LET keep == {r \in BagToSet(bag) : r.pin \notin gone}
    IN [r \in keep |-> bag[r]]

\* ghost_pins rows go with the pin they reference
CascadeGhosts(bag, gone) == Cascade(bag, gone)

past_expiry_inclusive(pin, t) == pin.expires_at <= t

\* Pin.expires_at < now
past_expiry(pin, t) == pin.expires_at < t

soft_expired_again(pin, t) == past_expiry(pin, t)

\* filter(Pin.expires_at < now, Pin.is_active) of the soft sweep
soft_expired(pin, t) == past_expiry(pin, t) /\ pin.is_active

\* The rows the sweep's DELETE or UPDATE matches
Swept(ps, hard_delete, t) ==
    IF hard_delete THEN {p \in DOMAIN ps : past_expiry(ps[p], t)}
    ELSE {p \in DOMAIN ps : soft_expired(ps[p], t)}

\* The pins table after the sweep
AfterSweep(ps, hard_delete, t) ==
    IF hard_delete THEN Restrict(ps, DOMAIN ps \ Swept(ps, TRUE, t))
    ELSE [p \in DOMAIN ps |->
             IF p \in Swept(ps, FALSE, t)
             THEN [ps[p] EXCEPT !.is_active = FALSE] ELSE ps[p]]

Cleanup(hard_delete) ==
    /\ UNCHANGED <<devices, nextPinId, now, reqs, placed, tenths, stats_cooldown>>
    /\ IF hard_delete
       THEN LET gone == Swept(pins, TRUE, now)
            IN /\ pins' = AfterSweep(pins, TRUE, now)
               /\ interactions' = Cascade(interactions, gone)
               /\ ghosts' = CascadeGhosts(ghosts, gone)
               /\ last' = Last("cleanup", 0, NoDevice,
                               [Rejected(200, "deleted") EXCEPT
                                  !.count = Cardinality(gone)])
       ELSE LET hit == Swept(pins, FALSE, now)
            IN /\ pins' = AfterSweep(pins, FALSE, now)
               /\ UNCHANGED <<interactions, ghosts>>
               /\ last' = Last("cleanup", 0, NoDevice,
                               [Rejected(200, "deactivated") EXCEPT
                                  !.count = Cardinality(hit)])

-----------------------------------------------------------------------------
(* discover_pins *)

NoRadius == 0
Radii == {NoRadius, 10, 50}
QueryPositions == {0, 50000}
TieBreaks == {1, -1}

Visible_unexpiring(pin, t) == pin.is_active

\* WHERE p.is_active = true AND p.expires_at > NOW() AND ST_DWithin(...)
Visible(pin, t) == pin.is_active /\ pin.expires_at > t

Matches(pin, t, q, meters) == Visible(pin, t) /\ ST_DWithin(pin.pos, q, meters)

\* ORDER BY distance_meters ASC, as an insertion sort: the rows come in the
\* order the store scans them (by id, upwards or downwards, as tie says) and
\* a row goes behind the rows that are no farther than it.
InsertByDistance(ps, seq, p, q) ==
    LET k == Cardinality({i \in 1..Len(seq) :
                 ST_Distance(ps[seq[i]].pos, q) <= ST_Distance(ps[p].pos, q)})
    IN SubSeq(seq, 1, k) \o <<p>> \o SubSeq(seq, k + 1, Len(seq))

RECURSIVE ScanByDistance(_, _, _, _, _, _)
ScanByDistance(ps, S, q, tie, hi, n) ==
    IF n = 0 THEN <<>>
    ELSE LET p == IF tie = 1 THEN n ELSE hi + 1 - n
         IN IF p \in S
            THEN CHOOSE sorted \in
                     {InsertByDistance(ps, seq, p, q) :
                          seq \in {ScanByDistance(ps, S, q, tie, hi, n - 1)}} :
                     TRUE
            ELSE ScanByDistance(ps, S, q, tie, hi, n - 1)

OrderByDistance(ps, S, q, tie) ==
    IF S = {} THEN <<>>
    ELSE LET hi == CHOOSE m \in S : \A o \in S : o <= m
         IN ScanByDistance(ps, S, q, tie, hi, hi)

Limit_unlimited(seq, n) == seq

\* LIMIT n
Limit(seq, n) == IF Len(seq) <= n THEN seq ELSE SubSeq(seq, 1, n)

SelectNearby(ps, t, q, meters, tie) ==
    Limit(OrderByDistance(ps, {p \in DOMAIN ps : Matches(ps[p], t, q, meters)},
                          q, tie),
          DISCOVER_LIMIT)

\* db.query(Device).filter(device_id == x_device_id, auth_type == auth_type)
CurrentDevice(devs, d, auth) ==
    IF d # NoDevice /\ d \in DOMAIN devs /\ devs[d].auth_type = auth
    THEN d ELSE NoDevice

PinDiscovery(ps, p, q, current_device) ==
    [id |-> p,
     distance_meters |-> Round2(ST_Distance(ps[p].pos, q)),
     likes |-> ps[p].likes, dislikes |-> ps[p].dislikes,
     reports |-> ps[p].reports, passes_by |-> ps[p].passes_by,
     is_suppressed |-> ps[p].is_suppressed,
     is_own_pin |-> (current_device # NoDevice /\ ps[p].device = current_device),
     expires_at |-> ps[p].expires_at]

Discover_registering(q, radius, d, auth, tie) ==
    \E meters \in {IF radius # NoRadius THEN radius
                    ELSE DISCOVERY_RADIUS_METERS} :
    \E rows \in {SelectNearby(pins, now, q, meters, tie)} :
    \E found \in {[i \in 1..Len(rows) |->
                     PinDiscovery(pins, rows[i], q,
                                  CurrentDevice(devices, d, auth))]} :
       /\ last' = [q |-> q, radius |-> meters] @@
                    Last("discover", 0, d,
                         [Rejected(200, "found") EXCEPT
                            !.count = Len(found), !.found = found])
       /\ devices' = IF d = NoDevice THEN devices
                     ELSE get_or_create_device(devices, d, auth, now)
       /\ UNCHANGED <<pins, interactions, ghosts, nextPinId, now, reqs,
                      placed, tenths, stats_cooldown>>

Discover(q, radius, d, auth, tie) ==
    \E meters \in {IF radius # NoRadius THEN radius
                    ELSE DISCOVERY_RADIUS_METERS} :
    \E rows \in {SelectNearby(pins, now, q, meters, tie)} :
    \E found \in {[i \in 1..Len(rows) |->
                     PinDiscovery(pins, rows[i], q,
                                  CurrentDevice(devices, d, auth))]} :
       /\ last' = [q |-> q, radius |-> meters] @@
                    Last("discover", 0, d,
                         [Rejected(200, "found") EXCEPT
                            !.count = Len(found), !.found = found])
       /\ UNCHANGED <<pins, devices, interactions, ghosts, nextPinId, now, reqs,
                      placed, tenths, stats_cooldown>>

-----------------------------------------------------------------------------
(* delete_pin *)

DeleteRejected(p, d, status, msg) ==
    /\ last' = Last("delete", p, d, Rejected(status, msg))
    /\ UNCHANGED <<pins, interactions, ghosts>>

owns_pin_any(ps, p, d) == TRUE

\* pin.device_db_id != device.id
owns_pin(ps, p, d) == ps[p].device = d

DeletePin(p, d, auth) ==
    /\ UNCHANGED <<devices, nextPinId, now, reqs, placed, tenths, stats_cooldown>>
    /\ IF d = NoDevice
       THEN DeleteRejected(p, d, 401, "device_required")
       ELSE IF CurrentDevice(devices, d, auth) = NoDevice
       THEN DeleteRejected(p, d, 404, "device_not_found")
       ELSE IF ~ActivePin(DB, p)
       THEN DeleteRejected(p, d, 404, "not_found")
       ELSE IF ~owns_pin(pins, p, d)
       THEN DeleteRejected(p, d, 403, "not_owner")
       ELSE /\ pins' = Restrict(pins, DOMAIN pins \ {p})
            /\ interactions' = Cascade(interactions, {p})
            /\ ghosts' = CascadeGhosts(ghosts, {p})
            /\ last' = Last("delete", p, d, Rejected(200, "deleted"))

-----------------------------------------------------------------------------
(* get_pin_stats *)

STATS_COOLDOWN_SECONDS == 30

\* time.time() when the model's clock starts, in seconds
BootTime == 1000

\* time.time(), in tenths of a second
Clock(t, sub) == BootTime * 10 + t * 600 + sub

\* device_cooldowns.get(pin_id, 0)
last_sync(cache, d, p) ==
    IF d \in DOMAIN cache /\ p \in DOMAIN cache[d] THEN cache[d][p] ELSE 0

on_cooldown_never(clock, synced) == FALSE

\* now - last_sync < _STATS_COOLDOWN_SECONDS
on_cooldown(clock, synced) == clock - synced < STATS_COOLDOWN_SECONDS * 10

\* int(_STATS_COOLDOWN_SECONDS - (now - last_sync))
remaining(clock, synced) ==
    (STATS_COOLDOWN_SECONDS * 10 - (clock - synced)) \div 10

\* _stats_cooldown.setdefault(x_device_id, {})
setdefault(cache, d) == IF d \in DOMAIN cache THEN cache ELSE cache @@ (d :> << >>)

\* device_cooldowns[pin_id] = now
record_sync(cache, d, p, clock) ==
    [setdefault(cache, d) EXCEPT
        ![d] = IF p \in DOMAIN @ THEN [@ EXCEPT ![p] = clock]
               ELSE @ @@ (p :> clock)]

PinStats(p, d, status, msg, row, left, expired) ==
    [remaining |-> left, expired |-> expired] @@
        Last("stats", p, d, Response(status, msg, row, FALSE))

GetPinStats(p, d) ==
    /\ UNCHANGED <<pins, devices, interactions, ghosts, nextPinId, now, reqs,
                   placed, tenths>>
    /\ IF d # NoDevice
          /\ on_cooldown(Clock(now, tenths), last_sync(stats_cooldown, d, p))
       THEN /\ stats_cooldown' = setdefault(stats_cooldown, d)
            /\ last' = PinStats(p, d, 429, "cooldown", NoRow,
                                remaining(Clock(now, tenths),
                                          last_sync(stats_cooldown, d, p)),
                                FALSE)
       ELSE /\ stats_cooldown' =
                  IF d # NoDevice
                  THEN record_sync(stats_cooldown, d, p, Clock(now, tenths))
                  ELSE stats_cooldown
            /\ last' = IF p \notin DOMAIN pins
                       THEN PinStats(p, d, 404, "not_found", NoRow, 0, FALSE)
                       ELSE PinStats(p, d, 200, "stats", pins[p], 0,
                                     ~pins[p].is_active
                                         \/ pins[p].expires_at <= now)

-----------------------------------------------------------------------------
(* Requests executed one at a time *)

Slots == {"r1", "r2"}

Init ==
    /\ pins = << >>
    /\ devices = << >>
    /\ interactions = EmptyBag
    /\ ghosts = EmptyBag
    /\ nextPinId = 1
    /\ now = 0
    /\ reqs = [r \in Slots |-> Idle]
    /\ last = Last("none", 0, NoDevice, NoResponse)
    /\ placed = {}
    /\ tenths = 0
    /\ stats_cooldown = << >>

\* One whole request: the handler runs to its response.
Serve(op, p, d, auth, ghostFails) ==
    \E r \in {RunReq([db |-> DB, s |-> NewRequest(op, p, d, auth, ghostFails)], now)} :
       /\ pins' = r.db.pins
       /\ devices' = r.db.devices
       /\ interactions' = r.db.interactions
       /\ ghosts' = r.db.ghosts
       /\ last' = Last(op, p, d, r.s.resp)
       /\ UNCHANGED <<nextPinId, now, reqs, placed, tenths, stats_cooldown>>

Below(p, counter, max) == p \in DOMAIN pins => pins[p][counter] < max

LikeReq(ids, callers, auths, max) ==
    \E p \in ids, d \in callers, auth \in auths :
        /\ Below(p, "likes", max)
        /\ Serve("like", p, d, auth, FALSE)

DislikeReq(ids, callers, auths, max) ==
    \E p \in ids, d \in callers, auth \in auths :
        /\ Below(p, "dislikes", max)
        /\ Serve("dislike", p, d, auth, FALSE)

ReportReq(ids, callers, auths, max) ==
    \E p \in ids, d \in callers, auth \in auths :
        /\ Below(p, "reports", max)
        /\ Serve("report", p, d, auth, FALSE)

PassByReq(ids, callers, auths, max) ==
    \E p \in ids, d \in callers, auth \in auths, ghostFails \in BOOLEAN :
        /\ Below(p, "passes_by", max)
        /\ Serve("passby", p, d, auth, ghostFails)

CreateReq(ids, callers, auths, positions, durations) ==
    /\ nextPinId \in ids
    /\ \E d \in callers, auth \in auths, pos \in positions,
          hours \in durations, contentOk \in BOOLEAN :
           CreatePin(d, auth, pos, hours, contentOk)

CleanupReq == \E hard_delete \in BOOLEAN : Cleanup(hard_delete)

DeleteReq(ids, callers, auths) ==
    \E p \in ids, d \in callers, auth \in auths : DeletePin(p, d, auth)

StatsReq(ids, callers) ==
    \E p \in ids, d \in callers : GetPinStats(p, d)

\* Time passing within the minute, in tenths of a second
Wait(steps, max) ==
    /\ \E step \in steps :
          /\ tenths + step <= max
          /\ tenths' = tenths + step
    /\ last' = Last("wait", 0, NoDevice, NoResponse)
    /\ UNCHANGED <<pins, devices, interactions, ghosts, nextPinId, now, reqs,
                   placed, stats_cooldown>>

DiscoverReq(radii, callers, auths) ==
    \E q \in QueryPositions, radius \in radii, d \in callers,
       auth \in auths, tie \in TieBreaks :
        Discover(q, radius, d, auth, tie)

Tick(steps, max) ==
    /\ \E step \in steps :
          /\ now + step <= max
          /\ now' = now + step
    /\ last' = Last("tick", 0, NoDevice, NoResponse)
    /\ UNCHANGED <<pins, devices, interactions, ghosts, nextPinId, reqs,
                   placed, tenths, stats_cooldown>>

\* The callers of the sequential specification: one device and the
\* requests that carry no X-Device-ID.
Callers == {"d1", NoDevice}

Next ==
    \/ CreateReq(PinIds, Callers, {"device"}, {0}, {1})
    \/ LikeReq(PinIds, Callers, {"device"}, MaxLikes)
    \/ DislikeReq(PinIds, Callers, {"device"}, MaxDislikes)
    \/ ReportReq(PinIds, Callers, {"device"}, MaxReports)
    \/ CleanupReq
    \/ Tick(TickSteps, MaxTicks * 61)

Spec == Init /\ [][Next]_vars

-----------------------------------------------------------------------------
(* Requests served concurrently, each in its own session *)

VoteOps == {"like", "dislike", "report", "passby"}

InFlight(r) == reqs[r].pc \notin {"idle", "done"}

\* The next statement of r inserts an Interaction row.
InsertsRow(s) ==
    \/ s.pc = "flush"
    \/ s.pc = "commit" /\ s.pendingIx /\ ~s.flushed

\* An INSERT waits for the transaction that holds an uncommitted row with
\* the same (device, pin) key.
Blocked(r) ==
    /\ InsertsRow(reqs[r])
    /\ \E o \in Slots \ {r} :
          /\ reqs[o].flushed
          /\ reqs[o].dev = reqs[r].dev
          /\ reqs[o].pin = reqs[r].pin

\* The votes device d1 cast before the two concurrent requests arrive
EarlierVote ==
    /\ \A r \in Slots : reqs[r].pc = "idle"
    /\ \E op \in VoteOps, p \in PinIds :
          /\ Below(p, "passes_by", MaxPassBys)
          /\ Serve(op, p, "d1", "device", FALSE)

Begin(r, op, p, d, auth, ghostFails) ==
    /\ reqs[r].pc = "idle"
    /\ reqs' = [reqs EXCEPT ![r] = NewRequest(op, p, d, auth, ghostFails)]
    /\ UNCHANGED <<pins, devices, interactions, ghosts, nextPinId, now, last,
                   placed, tenths, stats_cooldown>>

\* Two requests race: one of device d1, one of d1 again, of another
\* device or of a caller without device identifier.
BeginFirst ==
    \E op \in VoteOps, p \in DOMAIN pins :
        Begin("r1", op, p, "d1", "device", FALSE)

BeginSecond ==
    \E op \in VoteOps, p \in DOMAIN pins, d \in Devices \cup {NoDevice},
       ghostFails \in BOOLEAN :
        /\ reqs["r1"].pc # "idle"
        /\ ghostFails => op = "passby" /\ d # NoDevice
        /\ Begin("r2", op, p, d, "device", ghostFails)

\* One round trip of one session
Step ==
    \E r \in Slots :
        /\ InFlight(r)
        /\ ~Blocked(r)
        /\ \E n \in {StepReq(DB, reqs[r], now)} :
              /\ pins' = n.db.pins
              /\ devices' = n.db.devices
              /\ interactions' = n.db.interactions
              /\ ghosts' = n.db.ghosts
              /\ reqs' = [reqs EXCEPT ![r] = n.s]
              /\ last' = IF n.s.pc = "done"
                         THEN Last(n.s.op, n.s.pin, n.s.dev, n.s.resp)
                         ELSE last
        /\ UNCHANGED <<nextPinId, now, placed, tenths, stats_cooldown>>

NextConc ==
    \/ CreateReq(PinIds, {NoDevice}, {"device"}, {0}, {1})
    \/ EarlierVote
    \/ BeginFirst
    \/ BeginSecond
    \/ Step

SpecConc == Init /\ [][NextConc]_vars

-----------------------------------------------------------------------------
(* C1: executed one at a time, requests leave every pin with
   is_suppressed = (reports > likes * 2) *)
SuppressionMatchesCounters ==
    \A p \in DOMAIN pins :
        pins[p].is_suppressed = (pins[p].reports > pins[p].likes * 2)

SuppressionClearedByFourthLike ==
    \E p \in DOMAIN pins :
        /\ pins[p].reports = 7
        /\ pins[p].likes = 4
        /\ ~pins[p].is_suppressed
        /\ last.op = "like" /\ last.pin = p /\ last.msg = "liked"

-----------------------------------------------------------------------------
(* C3: the counters likes, dislikes, reports and pass-bys of every pin are
   never negative *)
CountersNonNegative ==
    \A p \in DOMAIN pins :
        /\ pins[p].likes >= 0
        /\ pins[p].dislikes >= 0
        /\ pins[p].reports >= 0
        /\ pins[p].passes_by >= 0

-----------------------------------------------------------------------------
HasReported(d, p) ==
    \E r \in RowsOf(interactions, d, p) : r.kind = "report"

\* The step is a report request of a device that got a response other
\* than "not found".
ReportServed ==
    /\ last'.op = "report"
    /\ last'.dev # NoDevice
    /\ last'.status # 404

(* C9: a report request of a device that has not reported the pin adds exactly
   one to reports; a report request of a device that has reported it changes
   no pin, Interaction or Ghost sighting and answers "already reported" with
   the pin's current state *)
ReportCountedOncePerDevice ==
    [][ReportServed =>
          IF HasReported(last'.dev, last'.pin)
          THEN /\ UNCHANGED <<pins, interactions, ghosts>>
               /\ last' = Last("report", last'.pin, last'.dev,
                               Response(200, "already_reported",
                                        pins[last'.pin], FALSE))
          ELSE /\ pins'[last'.pin].reports = pins[last'.pin].reports + 1
               /\ last'.reports = pins'[last'.pin].reports
               /\ last'.msg \in {"reported", "reported_suppressed"}]_vars

-----------------------------------------------------------------------------
Quiescent == \A r \in Slots : ~InFlight(r)

(* C2: once the concurrent vote requests on a pin have committed, its stored
   is_suppressed equals (reports > likes * 2) for its stored counters *)
SuppressionFreshAfterConcurrentVotes ==
    Quiescent => \A p \in DOMAIN pins :
        pins[p].is_suppressed = (pins[p].reports > pins[p].likes * 2)

-----------------------------------------------------------------------------
GhostCount(d, p) ==
    LET S == GhostsOf(ghosts, d, p)
        RECURSIVE Sum(_)
        Sum(T) == IF T = {} THEN 0
                  ELSE LET g == CHOOSE x \in T : TRUE
                       IN ghosts[g] + Sum(T \ {g})
    IN Sum(S)

(* C4: under any interleaving of like, dislike, report and pass-by requests
   there is at most one Interaction row and at most one Ghost sighting row
   for each (device, pin) pair *)
OneRowPerDeviceAndPin ==
    \A d \in Devices, p \in PinIds :
        /\ RowCount(interactions, d, p) <= 1
        /\ GhostCount(d, p) <= 1

\* Two votes of one device raced for the insert: one wrote the row and the
\* other was refused by the constraint, on a pin the device has one sighting of.
InsertRaceRefused ==
    /\ reqs["r1"].pc = "done" /\ reqs["r2"].pc = "done"
    /\ reqs["r1"].dev = reqs["r2"].dev
    /\ reqs["r1"].pendingIx /\ reqs["r2"].pendingIx
    /\ reqs["r1"].op = "like" /\ reqs["r2"].op = "dislike"
    /\ {reqs["r1"].resp.status, reqs["r2"].resp.status} = {200, 500}
    /\ RowCount(interactions, "d1", 1) = 1
    /\ GhostCount("d1", 1) = 1

-----------------------------------------------------------------------------
\* Both slots hold finished report requests of one device for one pin that
\* both passed the existing-report check.
DuplicateReportsRaced ==
    /\ reqs["r1"].pc = "done" /\ reqs["r2"].pc = "done"
    /\ reqs["r1"].op = "report" /\ reqs["r2"].op = "report"
    /\ reqs["r1"].dev = reqs["r2"].dev
    /\ reqs["r1"].pin = reqs["r2"].pin
    /\ reqs["r1"].pendingIx /\ reqs["r2"].pendingIx

Counted(s) == s.resp.status = 200 /\ s.resp.msg \in {"reported", "reported_suppressed"}

Refused(s) == s.resp.status = 200 /\ s.resp.msg = "already_reported"

(* C10: two concurrent report requests of one device for one pin that both
   passed the existing-report check raise reports by exactly 1 in total,
   and the one that loses the uniqueness conflict answers "already
   reported" *)
ConcurrentDuplicateReportCountsOnce ==
    DuplicateReportsRaced =>
        /\ pins[reqs["r1"].pin].reports = reqs["r1"].base.reports + 1
        /\ pins[reqs["r1"].pin].reports = reqs["r2"].base.reports + 1
        /\ \/ Counted(reqs["r1"]) /\ Refused(reqs["r2"])
           \/ Counted(reqs["r2"]) /\ Refused(reqs["r1"])

-----------------------------------------------------------------------------
(* Long runs of likes on one pin, up to the 1-year ceiling *)

MaxDeepLikes == 54

NextLikes ==
    \/ CreateReq(PinIds, {NoDevice}, {"device"}, {0}, DurationHours)
    \/ LikeReq(PinIds, Callers, {"device"}, MaxDeepLikes)
    \/ DislikeReq(PinIds, {"d1"}, {"device"}, MaxDislikes)
    \/ Tick(TickSteps, MaxTicks * 61)

SpecLikes == Init /\ [][NextLikes]_vars

\* The step is a like request answered for a pin that exists.
LikeServed ==
    /\ last'.op = "like"
    /\ last'.status = 200
    /\ last'.pin \in DOMAIN pins

(* C5: in every sequence of operations a like never decreases a pin's
   expires_at, and no pin's expires_at exceeds created_at + 365 days *)
LikeNeverShortensAndYearCaps ==
    [][/\ LikeServed =>
            pins'[last'.pin].expires_at >= pins[last'.pin].expires_at
       /\ \A p \in DOMAIN pins' :
            pins'[p].expires_at <= pins'[p].created_at + ONE_YEAR]_vars

\* A like was counted on a pin that already stood at the 1-year ceiling.
LikedAtCeiling ==
    /\ last.op = "like" /\ last.msg = "liked" /\ ~last.extended
    /\ 1 \in DOMAIN pins
    /\ pins[1].expires_at = pins[1].created_at + ONE_YEAR
    /\ pins[1].likes = MaxDeepLikes

Min(a, b) == IF a < b THEN a ELSE b

(* C6: a like that adds a new vote sets expires_at to
   min(expires_at + 7 days, created_at + 365 days), is counted, and answers
   extended = true exactly when expires_at moved forward *)
NewLikeExtendsBySevenDays ==
    [][(LikeServed /\ last'.msg = "liked") =>
          LET old == pins[last'.pin]
              new == pins'[last'.pin]
          IN /\ new.expires_at =
                    Min(old.expires_at + 7 * DAY, old.created_at + 365 * DAY)
             /\ new.likes = old.likes + 1
             /\ last'.expires_at = new.expires_at
             /\ last'.extended = (new.expires_at > old.expires_at)]_vars

\* Three new-vote likes on a pin created with duration_hours = 24.
ThreeLikesOnDayPin ==
    /\ last.op = "like" /\ last.msg = "liked" /\ last.extended
    /\ 1 \in DOMAIN pins
    /\ pins[1].likes = 3 /\ pins[1].dislikes = 0
    /\ pins[1].expires_at = pins[1].created_at + 24 * HOUR + 21 * DAY

-----------------------------------------------------------------------------
(* Discovery over a street of anonymous pins *)

MaxNearby == 52

\* Where the n-th pin of the street is left and for how long.
Street(n) == CASE n % 3 = 1 -> 0
               [] n % 3 = 2 -> 49996
               [] OTHER -> 50004

Stay(n) == IF n % 2 = 0 THEN 1 ELSE 24

Populate ==
    /\ now = 0
    /\ CreateReq(1..MaxNearby, {NoDevice}, {"device"},
                 {Street(nextPinId)}, {Stay(nextPinId)})

NextDiscover ==
    \/ Populate
    \/ ReportReq({1}, {NoDevice}, {"device"}, 1)
    \/ CleanupReq
    \/ Tick({60, 61}, MaxTicks * 61)
    \/ DiscoverReq({NoRadius, 10}, {NoDevice}, {"device"})

SpecDiscover == Init /\ [][NextDiscover]_vars

\* The pins the last discovery answered with.
FoundIds == {last.found[i].id : i \in 1..Len(last.found)}

\* The state right after a discovery request: the pins are as it saw them.
Discovered == last.op = "discover" /\ last.status = 200

OnlyLivePinsFound ==
    \A i \in 1..Len(last.found) :
        LET f == last.found[i]
        IN /\ f.id \in DOMAIN pins
           /\ pins[f.id].is_active
           /\ pins[f.id].expires_at > now
           /\ f.is_suppressed = pins[f.id].is_suppressed

InReach(p) ==
    /\ pins[p].is_active
    /\ pins[p].expires_at > now
    /\ ST_Distance(pins[p].pos, last.q) <= last.radius * 1000

(* C7 as stated: discovery returns only active, unexpired pins, and every
   suppressed pin that is active, unexpired and within the radius is
   returned with its stored is_suppressed value *)
EverySuppressedPinInReachFound ==
    Discovered =>
        /\ OnlyLivePinsFound
        /\ \A p \in DOMAIN pins :
              (pins[p].is_suppressed /\ InReach(p)) => p \in FoundIds

\* p was left out only because 50 pins at least as near were returned.
CutByLimit(p) ==
    /\ Len(last.found) = 50
    /\ \A o \in FoundIds :
          ST_Distance(pins[o].pos, last.q) <= ST_Distance(pins[p].pos, last.q)

(* C7: discovery returns only active, unexpired pins with their stored
   is_suppressed value, and suppression plays no part in the selection: a
   suppressed pin that is active, unexpired and within the radius is
   returned unless the 50-result limit leaves it out in favour of pins that
   are at least as near *)
SuppressedPinFoundUnlessCutByLimit ==
    Discovered =>
        /\ OnlyLivePinsFound
        /\ \A p \in DOMAIN pins :
              (pins[p].is_suppressed /\ InReach(p)) =>
                  (p \in FoundIds \/ CutByLimit(p))

\* A discovery answered with a suppressed pin while expired pins of the
\* street stayed out of the answer.
SuppressedFoundExpiredLeftOut ==
    /\ Discovered
    /\ \E i \in 1..Len(last.found) : last.found[i].is_suppressed
    /\ \E p \in DOMAIN pins :
          /\ pins[p].is_active /\ pins[p].expires_at = now
          /\ ST_Distance(pins[p].pos, last.q) <= last.radius * 1000
          /\ p \notin FoundIds

(* C8: a discovery answer is sorted by non-decreasing distance, holds no pin
   farther than the radius asked for (the configured default when none is
   given), holds at most 50 pins, and leaves a pin in reach out only when
   the 50 it holds are at least as near *)
NearestFiftySortedInRadius ==
    Discovered =>
        /\ Len(last.found) <= 50
        /\ \A i \in 1..Len(last.found) :
              /\ last.found[i].distance_meters <= last.radius * 100
              /\ ST_Distance(pins[last.found[i].id].pos, last.q)
                     <= last.radius * 1000
              /\ i > 1 =>
                   /\ last.found[i - 1].distance_meters
                          <= last.found[i].distance_meters
                   /\ ST_Distance(pins[last.found[i - 1].id].pos, last.q)
                          <= ST_Distance(pins[last.found[i].id].pos, last.q)
        /\ \A i, j \in 1..Len(last.found) :
              i # j => last.found[i].id # last.found[j].id
        /\ \A p \in DOMAIN pins :
              InReach(p) => (p \in FoundIds \/ CutByLimit(p))

\* More than 50 pins were in reach of a default-radius query: 50 came back
\* and the farthest stayed out.
FiftyOfMoreFound ==
    /\ Discovered
    /\ last.radius = DISCOVERY_RADIUS_METERS
    /\ Len(last.found) = 50
    /\ last.found[1].distance_meters < last.found[50].distance_meters
    /\ \E p \in DOMAIN pins : InReach(p) /\ p \notin FoundIds

-----------------------------------------------------------------------------
\* Both slots hold finished requests of kind op of one device for one pin
\* that both found no Interaction row.
DuplicateVotesRaced(op) ==
    /\ reqs["r1"].pc = "done" /\ reqs["r2"].pc = "done"
    /\ reqs["r1"].op = op /\ reqs["r2"].op = op
    /\ reqs["r1"].dev = reqs["r2"].dev
    /\ reqs["r1"].pin = reqs["r2"].pin
    /\ reqs["r1"].pendingIx /\ reqs["r2"].pendingIx

VoteCounter(op) == IF op = "like" THEN "likes" ELSE "dislikes"

Voted(s) == s.resp.status = 200 /\ s.resp.msg \in {"liked", "disliked"}

AlreadyVoted(s) ==
    s.resp.status = 200 /\ s.resp.msg \in {"already_liked", "already_disliked"}

(* C11: two concurrent likes (or two dislikes) of one device for one pin
   that both found no Interaction row end without a server fault: the
   counter rises by exactly 1 and the request that meets the uniqueness
   conflict answers as a sequential duplicate would, "already voted" *)
ConcurrentDuplicateVoteIsIdempotent ==
    \A op \in {"like", "dislike"} :
        DuplicateVotesRaced(op) =>
            /\ reqs["r1"].resp.status # 500 /\ reqs["r2"].resp.status # 500
            /\ pins[reqs["r1"].pin][VoteCounter(op)]
                   = reqs["r1"].base[VoteCounter(op)] + 1
            /\ \/ Voted(reqs["r1"]) /\ AlreadyVoted(reqs["r2"])
               \/ Voted(reqs["r2"]) /\ AlreadyVoted(reqs["r1"])

-----------------------------------------------------------------------------
\* Both slots hold finished, accepted first votes of kind op on one pin by
\* two different devices.
TwoDevicesVoted(op) ==
    /\ reqs["r1"].pc = "done" /\ reqs["r2"].pc = "done"
    /\ reqs["r1"].op = op /\ reqs["r2"].op = op
    /\ reqs["r1"].dev # NoDevice /\ reqs["r2"].dev # NoDevice
    /\ reqs["r1"].dev # reqs["r2"].dev
    /\ reqs["r1"].pin = reqs["r2"].pin
    /\ reqs["r1"].pendingIx /\ reqs["r2"].pendingIx
    /\ reqs["r1"].resp.status = 200 /\ reqs["r2"].resp.status = 200

CounterOf(op) ==
    CASE op = "like" -> "likes"
      [] op = "dislike" -> "dislikes"
      [] op = "report" -> "reports"

(* C12: when two different devices cast the same vote (like, dislike or
   report) on one pin concurrently, no update is lost: after both commits
   the counter is 2 above its value before the two requests and both
   Interaction rows are there *)
NoLostUpdateBetweenDevices ==
    \A op \in {"like", "dislike", "report"} :
        TwoDevicesVoted(op) =>
            LET p == reqs["r1"].pin
                c == CounterOf(op)
            IN /\ pins[p][c] = Min(reqs["r1"].base[c], reqs["r2"].base[c]) + 2
               /\ BagIn(PinInteraction(reqs["r1"].dev, p, op), interactions)
               /\ BagIn(PinInteraction(reqs["r2"].dev, p, op), interactions)

-----------------------------------------------------------------------------
(* The guards of create_pin: two devices around one spot *)

MaxGuardPins == 3

\* 100 m apart and 1 mm more
Spots == {0, 100000, 100001}

NextGuard ==
    \/ CreateReq(1..MaxGuardPins, {"d1", "d2"}, {"device"}, Spots, {1})
    \/ DeleteReq(1..MaxGuardPins, {"d1"}, {"device"})
    \/ Tick({59, 61}, MaxTicks * 61)

SpecGuard == Init /\ [][NextGuard]_vars

\* Device d placed a pin within 100 m of pos during the hour before t.
PlacedNearbyLately(d, pos, t) ==
    \E r \in placed :
        /\ r.dev = d
        /\ r.at > t - 60
        /\ Abs(r.pos - pos) <= 100 * 1000

(* C13: a device's create request is rejected by the duplicate guard if and
   only if that device itself created a pin within 100 m of the requested
   point during the trailing hour; pins of other devices never cause it *)
DuplicateIffOwnRecentPinNearby ==
    [][(last'.op = "create" /\ last'.dev # NoDevice) =>
          /\ PlacedNearbyLately(last'.dev, last'.pos, now)
                 => last'.status # 200
          /\ last'.msg = "duplicate"
                 => PlacedNearbyLately(last'.dev, last'.pos, now)]_vars

-----------------------------------------------------------------------------
(* The daily quota: one device walking down a street, a pin every 200 m *)

MaxQuotaPins == 22

Block(n) == n * 200000

\* The next pin goes to the next block; three times on the way, the last
\* time with its quota used up, the device tries the spot of its previous
\* pin again.
Retry(n) == IF n \in {2, 12, 21} THEN {Block(n - 1)} ELSE {}

Walk ==
    CreateReq(1..MaxQuotaPins, {"d1"}, {"device"},
              {Block(nextPinId)} \cup Retry(nextPinId), {1})

NextQuota ==
    \/ Walk
    \/ DeleteReq({1}, {"d1"}, {"device"})
    \/ Tick({DAY}, MaxTicks * DAY)

SpecQuota == Init /\ [][NextQuota]_vars

\* The pins device d created on calendar day k
PlacedOn(d, k) == {r \in placed : r.dev = d /\ r.at \div DAY = k}

(* C14: with requests run one at a time a device creates at most 20 pins
   per calendar day and its counter never exceeds 20; the attempt after 20
   creations of the day is rejected with 429, and the first create request
   of a later day passes the quota, succeeds and leaves the counter at 1 *)
TwentyPinsADay ==
    [][/\ \A d \in DOMAIN devices' :
             /\ devices'[d].pins_created_today <= 20
             /\ Cardinality(PlacedOn(d, now \div DAY)') <= 20
       /\ (last'.op = "create" /\ last'.dev # NoDevice
             /\ last'.msg # "invalid_content") =>
             /\ Cardinality(PlacedOn(last'.dev, now \div DAY)) >= 20
                    => last'.status = 429
             /\ PlacedOn(last'.dev, now \div DAY) = {}
                    => /\ last'.status = 200
                       /\ devices'[last'.dev].pins_created_today = 1]_vars

\* The 21st attempt of the day was turned down.
TwentyFirstRejected ==
    /\ last.op = "create" /\ last.status = 429
    /\ Cardinality(PlacedOn("d1", now \div DAY)) = 20
    /\ devices["d1"].pins_created_today = 20

-----------------------------------------------------------------------------
(* C15: a create request turned down by the quota guard or by the
   duplicate guard creates no pin, changes no pin and no vote or sighting,
   and does not increment the device's daily counter *)
RejectedCreateChangesNothing ==
    [][(last'.op = "create" /\ last'.msg \in {"daily_limit", "duplicate"}) =>
          /\ pins' = pins
          /\ nextPinId' = nextPinId
          /\ interactions' = interactions /\ ghosts' = ghosts
          /\ last'.dev \in DOMAIN devices
          /\ devices'[last'.dev].pins_created_today
                 <= devices[last'.dev].pins_created_today
          /\ \A d \in DOMAIN devices \ {last'.dev} : devices'[d] = devices[d]]_vars

\* A second pin at the spot of the first was turned down.
DuplicateTurnedAway ==
    /\ last.op = "create" /\ last.msg = "duplicate" /\ last.status = 400
    /\ last.pos = Block(11)
    /\ devices["d1"].pins_created_today = Cardinality(PlacedOn("d1", now \div DAY))
    /\ devices["d1"].pins_created_today = 11

-----------------------------------------------------------------------------
(* Polling the stats of a pin *)

MaxTenths == 310

NextStats ==
    \/ CreateReq(PinIds, {NoDevice}, {"device"}, {0}, {1})
    \/ StatsReq({1, 2}, {"d1", NoDevice})
    \/ StatsReq({1}, {"d2"})
    \/ Wait({100, 105, 310}, MaxTenths)

SpecStats == Init /\ [][NextStats]_vars

\* An accepted poll of (d, p) is on record.
Polled(d, p) == d \in DOMAIN stats_cooldown /\ p \in DOMAIN stats_cooldown[d]

\* Tenths of a second from the epoch to the present moment
Present == (1000 + now * 60) * 10 + tenths

(* C16: a stats poll of (device, pin) less than 30 seconds after that
   pair's last accepted poll is rejected with the remaining whole seconds as
   retry hint and does not move the recorded time; any other poll by a
   device is accepted and its time recorded *)
StatsCooldownThirtySeconds ==
    [][(last'.op = "stats" /\ last'.dev # NoDevice) =>
          LET d == last'.dev
              p == last'.pin
          IN IF Polled(d, p) /\ Present - stats_cooldown[d][p] < 300
             THEN /\ last'.status = 429
                  /\ last'.remaining
                        = (300 - (Present - stats_cooldown[d][p])) \div 10
                  /\ stats_cooldown'[d][p] = stats_cooldown[d][p]
             ELSE /\ last'.status # 429
                  /\ d \in DOMAIN stats_cooldown'
                  /\ p \in DOMAIN stats_cooldown'[d]
                  /\ stats_cooldown'[d][p] = Present]_vars

\* Ten seconds after an accepted poll the same pair is told to wait 20 s.
PollAfterTenSecondsRejected ==
    /\ last.op = "stats" /\ last.status = 429 /\ last.remaining = 20
    /\ Polled(last.dev, last.pin)
    /\ Present - stats_cooldown[last.dev][last.pin] = 100

-----------------------------------------------------------------------------
(* Removing pins: delete_pin by callers of every kind, and the sweep *)

MaxRemovalPins == 2

\* Pins are placed at the start, a block apart, by d1 or anonymously.
Settle ==
    /\ now = 0
    /\ CreateReq(1..MaxRemovalPins, {"d1", NoDevice}, {"device"},
                 {Block(nextPinId)}, {Stay(nextPinId + 1)})

NextRemoval ==
    \/ Settle
    \/ DislikeReq({1}, {"d2"}, {"device"}, MaxDislikes)
    \/ PassByReq({1}, {"d1"}, {"device"}, MaxPassBys)
    \/ DeleteReq(1..MaxRemovalPins, {"d1", "d2", NoDevice}, AuthTypes)
    \/ CleanupReq
    \/ Tick({60, 61}, MaxTicks * 61)

SpecRemoval == Init /\ [][NextRemoval]_vars

\* Everything outside the pins of set S is as it was.
OthersKept(S) ==
    /\ \A p \in DOMAIN pins \ S : p \in DOMAIN pins' /\ pins'[p] = pins[p]
    /\ \A r \in BagToSet(interactions) :
          r.pin \notin S => BagIn(r, interactions')
                              /\ interactions'[r] = interactions[r]
    /\ \A r \in BagToSet(ghosts) :
          r.pin \notin S => BagIn(r, ghosts') /\ ghosts'[r] = ghosts[r]

(* C17: a delete request removes the pin only when the requesting device
   is the pin's owning device, and then removes it with all its Interaction
   and Ghost rows; a request of another device, of an unknown device or
   without device identifier is rejected and changes nothing *)
OnlyOwnerDeletes ==
    [][last'.op = "delete" =>
          LET p == last'.pin
              d == last'.dev
          IN IF last'.status = 200
             THEN /\ d # NoDevice /\ d \in DOMAIN devices
                  /\ p \in DOMAIN pins /\ pins[p].device = d
                  /\ p \notin DOMAIN pins'
                  /\ \A r \in BagToSet(interactions') \cup BagToSet(ghosts') :
                        r.pin # p
                  /\ OthersKept({p})
             ELSE /\ pins' = pins
                  /\ interactions' = interactions
                  /\ ghosts' = ghosts]_vars

\* The owner deleted the only pin ever placed, which device d2 had voted on.
OwnerDeletedVotedPin ==
    /\ last.op = "delete" /\ last.status = 200 /\ last.dev = "d1"
    /\ nextPinId = 2 /\ pins = << >>
    /\ "d2" \in DOMAIN devices
    /\ interactions = EmptyBag /\ ghosts = EmptyBag

-----------------------------------------------------------------------------
(* C18: a soft cleanup sets is_active = false on exactly the active pins
   with expires_at < now, changes nothing else of them, touches no other
   pin and no row, and returns their number; a hard cleanup removes exactly
   the pins with expires_at < now with their Interaction and Ghost rows and
   returns their number *)
CleanupSweepsExactlyExpired ==
    [][last'.op = "cleanup" =>
          IF last'.msg = "deactivated"
          THEN LET hit == {p \in DOMAIN pins :
                              pins[p].is_active /\ pins[p].expires_at < now}
               IN /\ DOMAIN pins' = DOMAIN pins
                  /\ \A p \in hit :
                        pins'[p] = [pins[p] EXCEPT !.is_active = FALSE]
                  /\ \A p \in DOMAIN pins \ hit : pins'[p] = pins[p]
                  /\ interactions' = interactions /\ ghosts' = ghosts
                  /\ last'.count = Cardinality(hit)
          ELSE LET gone == {p \in DOMAIN pins : pins[p].expires_at < now}
               IN /\ DOMAIN pins' = DOMAIN pins \ gone
                  /\ OthersKept(gone)
                  /\ \A r \in BagToSet(interactions') \cup BagToSet(ghosts') :
                        r.pin \notin gone
                  /\ last'.count = Cardinality(gone)]_vars

\* A soft sweep switched off the expired pin 1, votes and all, and left the
\* unexpired pin 2 alone.
SoftSweepKeptCounters ==
    /\ last.op = "cleanup" /\ last.msg = "deactivated" /\ last.count = 1
    /\ 1 \in DOMAIN pins /\ 2 \in DOMAIN pins
    /\ ~pins[1].is_active /\ pins[1].expires_at < now
    /\ pins[1].dislikes = 1 /\ pins[1].passes_by = 1
    /\ pins[2].is_active /\ pins[2].expires_at >= now
    /\ interactions # EmptyBag

-----------------------------------------------------------------------------
(* Devices walking past one pin again and again *)

MaxVisits == 3

NextPassBy ==
    \/ CreateReq(PinIds, {NoDevice}, {"device"}, {0}, {1})
    \/ PassByReq(PinIds, {"d1", "d2", NoDevice}, {"device"}, MaxVisits)
    \/ CleanupReq
    \/ Tick(TickSteps, MaxTicks * 61)

SpecPassBy == Init /\ [][NextPassBy]_vars

\* The step is a pass-by request for a pin that is active.
PassedActivePin ==
    /\ last'.op = "passby"
    /\ last'.pin \in DOMAIN pins
    /\ pins[last'.pin].is_active

(* C19: every pass-by request on an active pin raises passes_by by exactly
   1, with or without device identifier and whether or not the device
   passed before; with a device identifier a Ghost row of (device, pin) is
   written only when there is none, and a later pass-by leaves the row and
   its first-seen time as they are *)
PassByCountsEveryTimeGhostOnce ==
    [][PassedActivePin =>
          LET p == last'.pin
              d == last'.dev
          IN /\ pins'[p] = [pins[p] EXCEPT !.passes_by = @ + 1]
             /\ last'.msg = "recorded"
             /\ last'.passes_by = pins[p].passes_by + 1
             /\ \A g \in BagToSet(ghosts) : BagIn(g, ghosts') /\ ghosts'[g] = 1
             /\ \A g \in BagToSet(ghosts') :
                   \/ BagIn(g, ghosts)
                   \/ /\ d # NoDevice /\ g = [dev |-> d, pin |-> p, first_seen_at |-> now]
                      /\ GhostsOf(ghosts, d, p) = {}]_vars

\* Device d1 passed the pin a third time, an hour after its first sighting.
ThirdPassKeepsFirstSighting ==
    /\ last.op = "passby" /\ last.dev = "d1" /\ last.msg = "recorded"
    /\ last.passes_by = 3
    /\ now = 61
    /\ GhostsOf(ghosts, "d1", 1) = {[dev |-> "d1", pin |-> 1, first_seen_at |-> 0]}

(* C20: when the Ghost row of a pass-by request on an active pin cannot be
   written, the request still answers "recorded" and its passes_by
   increment is committed *)
GhostFailureKeepsPassBy ==
    [][(PassedActivePin /\ last'.dev # NoDevice
          /\ GhostsOf(ghosts', last'.dev, last'.pin) = {}) =>
          /\ last'.msg = "recorded"
          /\ pins'[last'.pin].passes_by = pins[last'.pin].passes_by + 1
          /\ last'.passes_by = pins'[last'.pin].passes_by]_vars

\* Device d1 passed, its sighting could not be written, the pass counts.
PassCountedWithoutSighting ==
    /\ last.op = "passby" /\ last.dev = "d1" /\ last.msg = "recorded"
    /\ last.passes_by = 1 /\ pins[1].passes_by = 1
    /\ "d1" \in DOMAIN devices
    /\ ghosts = EmptyBag

-----------------------------------------------------------------------------
(* Pins created with every kind of duration *)

MaxCreatePins == 2

Durations == {0, 1, 24, 168, 169, 730, 731}

NextCreate ==
    \/ CreateReq(1..MaxCreatePins, {"d1", NoDevice}, {"device"},
                 {Block(nextPinId)}, Durations)
    \/ Tick({DAY}, MaxTicks * DAY)

SpecCreate == Init /\ [][NextCreate]_vars

\* min(max(d, 1), 730)
Clamped(d) ==
    LET low == IF d > 1 THEN d ELSE 1
    IN IF low < 730 THEN low ELSE 730

(* C21: a create-pin request is never rejected for its duration_hours; for
   every requested duration d the created pin has
   expires_at = created_at + min(max(d, 1), 730) hours *)
DurationClampedNeverRejected ==
    [][last'.op = "create" =>
          /\ last'.status # 422
          /\ last'.status = 200 =>
                pins'[last'.pin].expires_at =
                    pins'[last'.pin].created_at + Clamped(last'.hours) * HOUR]_vars

-----------------------------------------------------------------------------
(* Devices of either auth kind looking for their own pins *)

MaxOwnPins == 2

NextOwn ==
    \/ CreateReq(1..MaxOwnPins, {"d1", "d2", NoDevice}, AuthTypes, {0}, {1})
    \/ DiscoverReq({NoRadius}, {"d1", "d2", NoDevice}, AuthTypes)

SpecOwn == Init /\ [][NextOwn]_vars

(* C22: for every pin a discovery returns, is_own_pin is true if and only if
   the caller gave a device identifier and that device owns the pin; it is
   false for anonymous pins and for callers without device identifier *)
OwnPinIffCallerOwns ==
    last.op = "discover" =>
        \A i \in 1..Len(last.found) :
            last.found[i].is_own_pin =
                (last.dev # NoDevice /\ pins[last.found[i].id].device = last.dev)

-----------------------------------------------------------------------------
(* C27: a discovery request has no side effects: it creates no Device row,
   also not for a device identifier never seen before, changes no device's
   auth kind or counters, and changes no pin, Interaction or Ghost sighting *)
DiscoveryChangesNothing ==
    [][last'.op = "discover" =>
          UNCHANGED <<pins, devices, interactions, ghosts, nextPinId,
                      stats_cooldown>>]_vars

\* A device never seen before found a pin and is still unknown.
StrangerFoundPin ==
    /\ last.op = "discover" /\ last.dev = "d2" /\ last.count = 1
    /\ "d2" \notin DOMAIN devices
    /\ "d1" \in DOMAIN devices

-----------------------------------------------------------------------------
(* Requests on a pin that is gone or was never there *)

MaxLateVotes == 1

Targets == {1, 2}

NextInactive ==
    \/ CreateReq({1}, {"d1"}, {"device"}, {0}, {1})
    \/ LikeReq(Targets, {"d1", NoDevice}, {"device"}, MaxLateVotes)
    \/ DislikeReq(Targets, {"d2"}, {"device"}, MaxLateVotes)
    \/ ReportReq(Targets, {"d1", NoDevice}, {"device"}, MaxLateVotes)
    \/ PassByReq(Targets, {"d2", NoDevice}, {"device"}, MaxLateVotes)
    \/ DeleteReq(Targets, {"d1", "d2", NoDevice}, {"device"})
    \/ CleanupReq
    \/ Tick({61}, MaxTicks * 61)

SpecInactive == Init /\ [][NextInactive]_vars

\* The answer to a request for a pin that is not there.
NotFoundOutcome(op, p, d) ==
    CASE op \in {"like", "dislike", "report"} ->
             Last(op, p, d, Response(404, "not_found", NoRow, FALSE))
      [] op = "passby" ->
             Last(op, p, d, Response(200, "not_found", NoRow, FALSE))
      [] op = "delete" ->
             Last(op, p, d,
                  IF d = NoDevice
                  THEN Response(401, "device_required", NoRow, FALSE)
                  ELSE IF d \notin DOMAIN devices
                  THEN Response(404, "device_not_found", NoRow, FALSE)
                  ELSE Response(404, "not_found", NoRow, FALSE))

(* C23: inactive is terminal: no operation sets is_active of a pin back to
   true, and a like, dislike, report, pass-by or delete request on an
   inactive pin is answered like the same request on a pin that does not
   exist and changes no counter, flag or expiry of the pin and no
   Interaction or Ghost sighting *)
InactiveIsTerminal ==
    [][/\ \A p \in DOMAIN pins :
             (~pins[p].is_active /\ p \in DOMAIN pins') => ~pins'[p].is_active
       /\ (/\ last'.op \in {"like", "dislike", "report", "passby", "delete"}
           /\ last'.pin \in DOMAIN pins => ~pins[last'.pin].is_active)
          => /\ last' = NotFoundOutcome(last'.op, last'.pin, last'.dev)
             /\ UNCHANGED <<pins, interactions, ghosts>>]_vars

\* A like arrived for the deactivated pin that carries a dislike, a
\* report and a pass-by, and was turned away.
LikeOnDeactivatedPinTurnedAway ==
    /\ last.op = "like" /\ last.pin = 1 /\ last.status = 404
    /\ 1 \in DOMAIN pins /\ ~pins[1].is_active
    /\ pins[1].likes = 0 /\ pins[1].dislikes = 1 /\ pins[1].reports = 1
    /\ pins[1].passes_by = 1
    /\ interactions # EmptyBag /\ ghosts # EmptyBag

-----------------------------------------------------------------------------
\* The step is a like request of a device whose vote on the pin is a dislike.
LikeOverDislike ==
    /\ last'.op = "like"
    /\ last'.status = 200
    /\ last'.pin \in DOMAIN pins
    /\ \E r \in RowsOf(interactions, last'.dev, last'.pin) : r.kind = "dislike"

(* C24: a like of a device whose Interaction on the pin is a dislike turns
   the Interaction into a like, takes one from dislikes, adds one to likes,
   recomputes suppression and pushes expires_at forward by 7 days, capped
   at created_at + 1 year, as a first like does *)
LikeOverDislikeExtends ==
    [][LikeOverDislike =>
          LET p == last'.pin
              before == pins[p]
              after == pins'[p]
          IN /\ RowsOf(interactions', last'.dev, p) =
                   {PinInteraction(last'.dev, p, "like")}
             /\ after.likes = before.likes + 1
             /\ after.dislikes = before.dislikes - 1
             /\ after.is_suppressed = (after.reports > after.likes * 2)
             /\ after.expires_at = Min(before.expires_at + 7 * DAY,
                                       before.created_at + 365 * DAY)]_vars

-----------------------------------------------------------------------------
\* The step is a like request of a device that has liked the pin already.
LikeOverLike ==
    /\ last'.op = "like"
    /\ last'.dev # NoDevice
    /\ last'.pin \in DOMAIN pins
    /\ \E r \in RowsOf(interactions, last'.dev, last'.pin) : r.kind = "like"

(* C25: a like of a device whose Interaction on the pin is a like already
   changes nothing: likes, dislikes, reports, is_suppressed, expires_at and
   the Interaction row stay as they are and the answer carries
   extended = false, so liking n >= 1 times in a row is liking once *)
RepeatedLikeChangesNothing ==
    [][LikeOverLike =>
          /\ UNCHANGED <<pins, interactions, ghosts>>
          /\ last' = Last("like", last'.pin, last'.dev,
                          Response(200, "already_liked", pins[last'.pin],
                                   FALSE))]_vars

\* Device d1 liked the pin a second time; the pin shows its one like and
\* the one extension.
SecondLikeOfSameDevice ==
    /\ last.op = "like" /\ last.dev = "d1" /\ last.msg = "already_liked"
    /\ ~last.extended
    /\ 1 \in DOMAIN pins
    /\ pins[1].likes = 1
    /\ pins[1].expires_at = pins[1].created_at + 24 * HOUR + 7 * DAY

-----------------------------------------------------------------------------
(* Devices that dislike, like and dislike again *)

MaxMirror == 2

NextDislikes ==
    \/ CreateReq(PinIds, {NoDevice}, {"device"}, {0}, {1})
    \/ LikeReq(PinIds, {"d1"}, {"device"}, MaxMirror)
    \/ DislikeReq(PinIds, {"d1", "d2", NoDevice}, {"device"}, MaxMirror)
    \/ ReportReq(PinIds, {NoDevice}, {"device"}, 1)
    \/ Tick(TickSteps, MaxTicks * 61)

SpecDislikes == Init /\ [][NextDislikes]_vars

\* The kinds of the Interactions device d has on pin p
KindsOf(ix, d, p) == {r.kind : r \in RowsOf(ix, d, p)}

(* C26: a first dislike of a device creates a dislike Interaction and adds
   one to dislikes; a dislike over the device's like turns the Interaction
   into a dislike, takes one from likes and adds one to dislikes; a
   repeated dislike changes nothing; no dislike request changes expires_at *)
DislikeMirrorsLike ==
    [][last'.op = "dislike" =>
          /\ \A p \in DOMAIN pins :
                p \in DOMAIN pins' /\ pins'[p].expires_at = pins[p].expires_at
          /\ (last'.status = 200 /\ last'.dev # NoDevice) =>
                LET p == last'.pin
                    d == last'.dev
                    had == KindsOf(interactions, d, p)
                IN /\ had = {} =>
                         /\ interactions' =
                               interactions (+) SetToBag({PinInteraction(d, p, "dislike")})
                         /\ pins'[p] = [pins[p] EXCEPT !.dislikes = @ + 1]
                   /\ had = {"like"} =>
                         /\ KindsOf(interactions', d, p) = {"dislike"}
                         /\ RowCount(interactions', d, p) = 1
                         /\ pins'[p].likes = pins[p].likes - 1
                         /\ pins'[p].dislikes = pins[p].dislikes + 1
                   /\ had = {"dislike"} => UNCHANGED <<pins, interactions>>]_vars

\* Device d1 turned its like into a dislike on a pin d2 dislikes too.
LikeTurnedIntoDislike ==
    /\ last.op = "dislike" /\ last.dev = "d1" /\ last.msg = "changed_to_dislike"
    /\ 1 \in DOMAIN pins
    /\ pins[1].likes = 0 /\ pins[1].dislikes = 2
    /\ pins[1].expires_at = pins[1].created_at + HOUR + 7 * DAY
    /\ KindsOf(interactions, "d2", 1) = {"dislike"}

-----------------------------------------------------------------------------
\* Device d has a pin of the last hour within 100 m of pos.
OwnRecentPinNearby(d, pos) ==
    \E p \in DOMAIN pins :
        /\ pins[p].device = d
        /\ pins[p].created_at > now - 60
        /\ Abs(pins[p].pos - pos) <= 100 * 1000

(* C28: create-pin applies content validation, then the device quota, then
   the duplicate-pin check: a request with rejected content fails with the
   validator's reason and no device is created or counted, and a request
   that breaks both the quota and the duplicate rule is answered quota
   exceeded *)
GuardsInOrder ==
    [][last'.op = "create" =>
          LET d == last'.dev
              spent == Cardinality(PlacedOn(d, now \div DAY)) >= 20
          IN /\ ~last'.content_ok =>
                   /\ last'.status = 400 /\ last'.msg = "invalid_content"
                   /\ UNCHANGED <<pins, devices, nextPinId>>
             /\ (last'.content_ok /\ d # NoDevice /\ spent) =>
                   last'.status = 429 /\ last'.msg = "daily_limit"
             /\ (last'.content_ok /\ d # NoDevice /\ ~spent
                   /\ OwnRecentPinNearby(d, last'.pos)) =>
                   last'.status = 400 /\ last'.msg = "duplicate"]_vars

\* With its 20 pins of the day placed, the device tried the spot of its
\* 20th pin again and was told its quota is used up.
QuotaAnsweredBeforeDuplicate ==
    /\ last.op = "create" /\ last.dev = "d1" /\ last.content_ok
    /\ last.status = 429
    /\ last.pos = Block(20)
    /\ Cardinality(PlacedOn("d1", now \div DAY)) = 20
    /\ OwnRecentPinNearby("d1", last.pos)

-----------------------------------------------------------------------------
\* What device d has on its daily counter at time t, before the request
CountedToday(d, t) ==
    IF d \in DOMAIN devices /\ devices[d].last_pin_reset >= t \div DAY
    THEN devices[d].pins_created_today ELSE 0

(* C29: every pin created starts active, unsuppressed, with likes, dislikes,
   reports and pass-bys 0 and expires_at > created_at, created_at + 24 h for
   duration_hours = 24; a creation by a device adds exactly 1 to the
   device's counter of the day, an anonymous creation has no owner and
   touches no device *)
CreatedPinStartsClean ==
    [][(last'.op = "create" /\ last'.status = 200) =>
          LET p == last'.pin
              d == last'.dev
          IN /\ p \notin DOMAIN pins /\ DOMAIN pins' = DOMAIN pins \cup {p}
             /\ pins'[p].is_active /\ ~pins'[p].is_suppressed
             /\ pins'[p].likes = 0 /\ pins'[p].dislikes = 0
             /\ pins'[p].reports = 0 /\ pins'[p].passes_by = 0
             /\ pins'[p].created_at = now
             /\ pins'[p].expires_at > pins'[p].created_at
             /\ last'.hours = 24 => pins'[p].expires_at = now + 24 * 60
             /\ pins'[p].device = d
             /\ IF d = NoDevice THEN devices' = devices
                ELSE /\ devices'[d].pins_created_today = CountedToday(d, now) + 1
                     /\ \A o \in DOMAIN devices \ {d} : devices'[o] = devices[o]]_vars

\* On its second day the device placed a 24-hour pin, its first of the
\* day, next to an anonymous pin of the day before.
DayPinOnSecondDay ==
    /\ last.op = "create" /\ last.status = 200 /\ last.dev = "d1"
    /\ last.hours = 24 /\ last.pin = 2
    /\ now = DAY
    /\ pins[2].expires_at = 2 * DAY
    /\ devices["d1"].pins_created_today = 1
    /\ pins[1].device = NoDevice /\ pins[1].created_at = 0

-----------------------------------------------------------------------------
(* get_pin_stats as a coroutine on the event loop.  The handler is an
   async def: the loop runs it from one await to the next, and requests
   that have arrived run in any order. *)

Yields_after_check(pc) == pc = "update"

\* Whether the handler hands control back to the loop on reaching pc: there
\* is no await in get_pin_stats, the database calls are synchronous.
Yields(pc) == FALSE

\* now = time.time()
StatsStart(cache, s, clock) ==
    [cache |-> cache,
     s |-> [s EXCEPT !.clock = clock,
                     !.pc = IF s.dev # NoDevice THEN "check" ELSE "read"]]

\* setdefault, get and the comparison that raises 429
StatsCheck(cache, s) ==
    LET synced == last_sync(cache, s.dev, s.pin)
    IN IF on_cooldown(s.clock, synced)
       THEN [cache |-> setdefault(cache, s.dev),
             s |-> [s EXCEPT !.pc = "done",
                             !.resp = PinStats(s.pin, s.dev, 429, "cooldown",
                                               NoRow,
                                               remaining(s.clock, synced),
                                               FALSE)]]
       ELSE [cache |-> setdefault(cache, s.dev),
             s |-> [s EXCEPT !.pc = "update"]]

\* device_cooldowns[pin_id] = now
StatsUpdate(cache, s) ==
    [cache |-> record_sync(cache, s.dev, s.pin, s.clock),
     s |-> [s EXCEPT !.pc = "read"]]

\* db.query(Pin).filter(Pin.id == pin_id).first() and the response
StatsRead(cache, ps, s, t) ==
    [cache |-> cache,
     s |-> [s EXCEPT
              !.pc = "done",
              !.resp = IF s.pin \notin DOMAIN ps
                       THEN PinStats(s.pin, s.dev, 404, "not_found", NoRow, 0,
                                     FALSE)
                       ELSE PinStats(s.pin, s.dev, 200, "stats", ps[s.pin], 0,
                                     ~ps[s.pin].is_active
                                        \/ ps[s.pin].expires_at <= t)]]

StatsStep(cache, ps, s, t, clock) ==
    CASE s.pc = "start" -> StatsStart(cache, s, clock)
      [] s.pc = "check" -> StatsCheck(cache, s)
      [] s.pc = "update" -> StatsUpdate(cache, s)
      [] s.pc = "read" -> StatsRead(cache, ps, s, t)

\* The loop runs a coroutine until it awaits or returns.
RECURSIVE RunToAwait(_, _, _, _)
RunToAwait(n, ps, t, clock) ==
    IF n.s.pc = "done" \/ Yields(n.s.pc) THEN n
    ELSE RunToAwait(StatsStep(n.cache, ps, n.s, t, clock), ps, t, clock)

\* A stats poll arrives and waits for its turn on the loop.
StatsArrive(ids, callers) ==
    \E r \in Slots, p \in ids, d \in callers :
        /\ reqs[r].pc \in {"idle", "done"}
        /\ reqs' = [reqs EXCEPT ![r] = NewRequest("stats", p, d, "device", FALSE)]
        /\ UNCHANGED <<pins, devices, interactions, ghosts, nextPinId, now,
                       last, placed, tenths, stats_cooldown>>

\* The loop picks one of the polls that wait and runs it.
StatsRun ==
    \E r \in Slots :
        /\ InFlight(r)
        /\ reqs[r].op = "stats"
        /\ \E n \in {RunToAwait(StatsStep(stats_cooldown, pins, reqs[r], now,
                                          Clock(now, tenths)),
                                pins, now, Clock(now, tenths))} :
              /\ stats_cooldown' = n.cache
              /\ reqs' = [reqs EXCEPT ![r] = n.s]
              /\ last' = IF n.s.pc = "done" THEN n.s.resp ELSE last
        /\ UNCHANGED <<pins, devices, interactions, ghosts, nextPinId, now,
                       placed, tenths>>

NextStatsConc ==
    \/ CreateReq(PinIds, {NoDevice}, {"device"}, {0}, {1})
    \/ StatsArrive({1}, {"d1", "d2", NoDevice})
    \/ StatsRun
    \/ Wait({100, 310}, MaxTenths)

SpecStatsConc == Init /\ [][NextStatsConc]_vars

\* Poll r of a device was let through the cooldown gate.
Accepted(r) ==
    /\ reqs[r].op = "stats" /\ reqs[r].dev # NoDevice
    /\ reqs[r].pc \in {"read", "done"}
    /\ reqs[r].pc = "done" => reqs[r].resp.status # 429

(* C30: the stats cooldown cache is safe under concurrent requests: of the
   polls for one (device, pin) pair that race within one 30-second window at
   most one is accepted, and no poll is ever left between its check of the
   last-poll timestamp and its update while another request runs *)
RacingPollsAcceptedOnce ==
    /\ \A r \in Slots : reqs[r].op = "stats" => reqs[r].pc # "update"
    /\ \A r, o \in Slots :
          (/\ r # o /\ Accepted(r) /\ Accepted(o)
           /\ reqs[r].dev = reqs[o].dev /\ reqs[r].pin = reqs[o].pin)
          => \/ reqs[r].clock - reqs[o].clock >= 300
             \/ reqs[o].clock - reqs[r].clock >= 300

\* Two polls of device d1 for pin 1 had both arrived before either ran, at
\* the same instant: one was answered with the stats, the other with 429.
RacedPollsOneTurnedAway ==
    /\ reqs["r1"].op = "stats" /\ reqs["r2"].op = "stats"
    /\ reqs["r1"].pc = "done" /\ reqs["r2"].pc = "done"
    /\ reqs["r1"].dev = "d1" /\ reqs["r2"].dev = "d1"
    /\ reqs["r1"].clock = reqs["r2"].clock
    /\ reqs["r1"].resp.status = 200
    /\ reqs["r2"].resp.status = 429 /\ reqs["r2"].resp.remaining = 30

-----------------------------------------------------------------------------
(* C31: cleanup is idempotent: a second run at the same instant and in the
   same mode affects 0 pins and leaves the state as the first run left it *)
CleanupTwiceIsCleanupOnce ==
    last.op = "cleanup" =>
        LET hard_delete == (last.msg = "deleted")
        IN /\ Cardinality(Swept(pins, hard_delete, now)) = 0
           /\ AfterSweep(pins, hard_delete, now) = pins
           /\ hard_delete =>
                 /\ Cascade(interactions, Swept(pins, TRUE, now)) = interactions
                 /\ CascadeGhosts(ghosts, Swept(pins, TRUE, now)) = ghosts

\* A soft sweep found nothing to do: the expired pin with its dislike and
\* its pass-by had been deactivated by a sweep at the same instant.
SecondSoftSweepFoundNothing ==
    /\ last.op = "cleanup" /\ last.msg = "deactivated" /\ last.count = 0
    /\ now = 61
    /\ 1 \in DOMAIN pins /\ ~pins[1].is_active /\ pins[1].expires_at = 60
    /\ pins[1].dislikes = 1 /\ pins[1].passes_by = 1

-----------------------------------------------------------------------------
(* Devices seen first under one authentication kind and later under another *)

MaxAuthPins == 2

NextAuth ==
    \/ CreateReq({1}, {"d1", "d2"}, AuthTypes, {Block(1)}, {1})
    \/ CreateReq(2..MaxAuthPins, {"d1", "d2"}, {"device"},
                 {Block(nextPinId)}, {1})
    \/ LikeReq(1..MaxAuthPins, {"d1", "d2"}, AuthTypes, MaxAuthPins)
    \/ DeleteReq(1..MaxAuthPins, {"d1", "d2"}, AuthTypes)

SpecAuth == Init /\ [][NextAuth]_vars

(* C32: a Device row that has the linked-account kind ('supabase') keeps it:
   no later request, whatever kind it carries, changes it back to 'device' *)
AuthKindNeverDowngraded ==
    [][\A d \in DOMAIN devices :
          devices[d].auth_type = "supabase" =>
              /\ d \in DOMAIN devices'
              /\ devices'[d].auth_type = "supabase"]_vars

\* d1 holds the linked-account kind and has since created pin 2, a request
\* that carried the kind 'device'
LinkedDeviceCreatedAsPlainDevice ==
    /\ "d1" \in DOMAIN devices /\ devices["d1"].auth_type = "supabase"
    /\ 2 \in DOMAIN pins /\ pins[2].device = "d1"
    /\ last.op = "create" /\ last.dev = "d1" /\ last.status = 200

-----------------------------------------------------------------------------
(* C33: under any interleaving of requests that carry the same previously
   unseen device identifier, one Device row is created for it and no request
   fails because of the other request's insert *)
NewDeviceRaceHarmless ==
    \A r \in Slots :
        (reqs[r].pc = "done" /\ reqs[r].dev # NoDevice /\ ~reqs[r].devFound) =>
            /\ reqs[r].dev \in DOMAIN devices
            /\ reqs[r].resp.status # 500
            /\ reqs[r].resp.msg # "failed"

-----------------------------------------------------------------------------
(* C34: once a pin's expires_at is <= now, so that discovery no longer
   returns it, no later like, dislike, report or pass-by makes it visible in
   discovery again *)
ExpiredStaysHidden ==
    [][\A p \in DOMAIN pins \cap DOMAIN pins' :
          pins[p].expires_at <= now => ~Visible(pins'[p], now')]_vars

-----------------------------------------------------------------------------
(* Devices changing their vote between like, dislike and report *)

MaxChanges == 2

NextVotes ==
    \/ CreateReq({1}, {NoDevice}, {"device"}, {0}, {1})
    \/ LikeReq({1}, {"d1", "d2"}, {"device"}, MaxChanges)
    \/ DislikeReq({1}, {"d1", "d2"}, {"device"}, MaxChanges)
    \/ ReportReq({1}, {"d1", "d2"}, {"device"}, MaxChanges)

SpecVotes == Init /\ [][NextVotes]_vars

RowsOfKind(ix, p, k) == {r \in BagToSet(ix) : r.pin = p /\ r.kind = k}

(* C35: with every vote carrying a device identifier and run one at a time,
   each counter of a pin equals the number of Interaction rows of its kind:
   likes = like rows, dislikes = dislike rows, reports = report rows *)
CountersEqualRowCounts ==
    \A p \in DOMAIN pins :
        /\ pins[p].likes = Cardinality(RowsOfKind(interactions, p, "like"))
        /\ pins[p].dislikes = Cardinality(RowsOfKind(interactions, p, "dislike"))
        /\ pins[p].reports = Cardinality(RowsOfKind(interactions, p, "report"))

-----------------------------------------------------------------------------
(* C36: a report is answered "already reported" without counting only when
   the device already has an Interaction of kind report on the pin; a report
   of a device whose Interaction on the pin is a like or a dislike is
   recorded and increments reports *)
ReportAfterVoteIsCounted ==
    [][ReportServed =>
          LET before == KindsOf(interactions, last'.dev, last'.pin)
          IN /\ last'.msg = "already_reported" => "report" \in before
             /\ before \cap {"like", "dislike"} # {} =>
                   /\ pins'[last'.pin].reports = pins[last'.pin].reports + 1
                   /\ last'.msg \in {"reported", "reported_suppressed"}]_vars

-----------------------------------------------------------------------------
(* create_pin of one device on several server instances: every statement
   sent to the database is a round trip between which another session may
   run *)

MaxRacePins == 19

\* Two spots away from every pin of the walk
RaceSpots == {Block(MaxRacePins + 1), Block(MaxRacePins + 2)}

NewCreate(d, auth, pos) ==
    [pos |-> pos, counted |-> 0] @@ NewRequest("create", 0, d, auth, FALSE)

\* check_device_rate_limit: the commit of get_or_create_device has expired
\* the Device instance, so the row is read again here; the reset of a new
\* day is committed at once.
CreateLimit(db, s, t) ==
    LET row == ResetIfNewDay(db.devices[s.dev], t)
        db1 == [db EXCEPT !.devices[s.dev] = row]
    IN IF ~check_device_rate_limit(row)
       THEN Finish(db1, s, Rejected(429, "daily_limit"))
       ELSE [db |-> db1,
             s |-> [s EXCEPT !.counted = row.pins_created_today,
                             !.pc = "duplicate"]]

\* check_duplicate_pin: SELECT COUNT(*) over the committed pins
CreateDuplicate(db, s, t) ==
    IF check_duplicate_pin(db.pins, s.dev, s.pos, t)
    THEN Finish(db, s, Rejected(400, "duplicate"))
    ELSE Goto(db, s, "insert")

\* db.add(new_pin); device.pins_created_today += 1; db.commit(): the UPDATE
\* writes the value computed from the row the session read.
CreateInsert(db, s, t, id) ==
    LET new_pin == Pin(s.dev, s.pos, t, expiry_hours(1))
    IN Finish([db EXCEPT !.pins = @ @@ (id :> new_pin),
                         !.devices[s.dev].pins_created_today = s.counted + 1],
              [s EXCEPT !.pin = id],
              Response(200, "created", new_pin, FALSE))

CreateStep(db, s, t, id) ==
    CASE s.pc = "start" -> DeviceQuery(db, s)
      [] s.pc = "dev_commit" ->
            IF DeviceCommitFails(db, s) THEN Fault(db, s)
            ELSE DeviceCommit(db, s, t, "limit")
      [] s.pc = "limit" -> CreateLimit(db, s, t)
      [] s.pc = "duplicate" -> CreateDuplicate(db, s, t)
      [] s.pc = "insert" -> CreateInsert(db, s, t, id)

\* The pins device d1 created before the concurrent requests arrive
EarlierPins ==
    /\ \A r \in Slots : reqs[r].pc = "idle"
    /\ CreateReq(1..MaxRacePins, {"d1"}, {"device"}, {Block(nextPinId)}, {1})

\* A create request of d1 reaches one of the instances.
BeginCreate ==
    \E r \in Slots, pos \in RaceSpots :
        /\ reqs[r].pc = "idle"
        /\ reqs' = [reqs EXCEPT ![r] = NewCreate("d1", "device", pos)]
        /\ UNCHANGED <<pins, devices, interactions, ghosts, nextPinId, now,
                       last, placed, tenths, stats_cooldown>>

\* One round trip of one create request
CreateRun ==
    \E r \in Slots :
        /\ InFlight(r)
        /\ reqs[r].op = "create"
        /\ \E n \in {CreateStep(DB, reqs[r], now, nextPinId)} :
              LET created == n.s.pc = "done" /\ n.s.resp.status = 200
              IN /\ pins' = n.db.pins
                 /\ devices' = n.db.devices
                 /\ reqs' = [reqs EXCEPT ![r] = n.s]
                 /\ nextPinId' = IF created THEN nextPinId + 1 ELSE nextPinId
                 /\ placed' = IF created
                              THEN placed \cup
                                      {[id |-> nextPinId, dev |-> n.s.dev,
                                        pos |-> n.s.pos, at |-> now]}
                              ELSE placed
                 /\ last' = IF n.s.pc = "done"
                            THEN Asked(n.s.pos, 1, TRUE,
                                       Last("create", n.s.pin, n.s.dev,
                                            n.s.resp))
                            ELSE last
        /\ UNCHANGED <<interactions, ghosts, now, tenths, stats_cooldown>>

NextCreateConc ==
    \/ EarlierPins
    \/ BeginCreate
    \/ CreateRun

SpecCreateConc == Init /\ [][NextCreateConc]_vars

\* Two pins of device d created within an hour and within 100 m
TwinPins(d) ==
    \E a, b \in placed :
        /\ a.dev = d /\ b.dev = d /\ a.id # b.id
        /\ Abs(a.at - b.at) < HOUR
        /\ Abs(a.pos - b.pos) <= 100 * 1000

(* C37: under every interleaving of create requests of one device, the
   device never has more than 20 pins created in one calendar day, nor two
   pins created within 1 hour and within 100 meters of each other *)
GuardsHoldUnderConcurrency ==
    \A d \in Devices :
        /\ \A k \in 0..(now \div DAY) :
              Cardinality(PlacedOn(d, k)) <= DAILY_PIN_LIMIT
        /\ ~TwinPins(d)

-----------------------------------------------------------------------------
(* A pin created at minute 0, liked for as long as anyone cares to, with
   the clock running past its hard limit and cleanup invoked again and
   again *)

MaxLateDays == 1

Born ==
    /\ now = 0
    /\ CreateReq({1}, {NoDevice}, {"device"}, {0}, {1})

\* The year passes in five steps, then day by day.
Passing ==
    \/ Tick({ONE_YEAR \div 5}, ONE_YEAR)
    \/ /\ now >= ONE_YEAR
       /\ Tick({DAY}, ONE_YEAR + MaxLateDays * DAY)

NextRetire ==
    \/ Born
    \/ LikeReq({1}, {NoDevice}, {"device"}, MaxDeepLikes)
    \/ CleanupReq
    \/ Passing

\* Time advances and cleanup keeps being invoked.
SpecRetire ==
    Init /\ [][NextRetire]_vars /\ WF_vars(Passing) /\ WF_vars(CleanupReq)

(* C38: if cleanup keeps being invoked as time advances, every pin, whatever
   likes it receives, eventually becomes inactive or is removed *)
EveryPinEventuallyRetired ==
    (1 \in DOMAIN pins) ~> (1 \notin DOMAIN pins \/ ~pins[1].is_active)

\* Pin 1 was liked up to its hard limit of created_at + 365 days and a sweep
\* after that limit has deactivated it
RetiredAtHardLimit ==
    /\ 1 \in DOMAIN pins /\ ~pins[1].is_active
    /\ pins[1].expires_at = pins[1].created_at + ONE_YEAR
    /\ pins[1].likes >= 53
    /\ now > pins[1].created_at + ONE_YEAR
    /\ last.op = "cleanup" /\ last.msg = "deactivated" /\ last.count = 1

====
